---- MODULE Spec2Model ----
(***************************************************************************)
(* A model of yamlconfig.py: the validator (Type / Container / List / Set  *)
(* / Dict / Map .match) and the customization engine                       *)
(* (YamlConfigBuilder.applyCustomizationRule).                             *)
(*                                                                         *)
(* Data trees and attribute values are records tagged by kind; compiled    *)
(* types are records with the fields the Python objects carry.  A match    *)
(* returns the error it raised (or none), the data tree as the in-place    *)
(* mutations left it, and the compiled type as the aliasing of injected    *)
(* defaults left it.                                                       *)
(***************************************************************************)
EXTENDS Integers, Sequences, FiniteSets, TLC

VARIABLES pc, typ, data, typ0, data0, err, obj, obj0, rule, cerr, mix, pair, imp,
          find, ct, bld, ld

vars == <<pc, typ, data, typ0, data0, err, obj, obj0, rule, cerr, mix, pair, imp,
          find, ct, bld, ld>>

(***************************************************************************)
(* Bounds of the model.                                                    *)
(***************************************************************************)
MaxLen == 3
MaxInt == 2

(***************************************************************************)
(* Python values.                                                          *)
(***************************************************************************)
NoneV == [k |-> "null"]
BoolV(b) == [k |-> "bool", b |-> b]
IntV(i) == [k |-> "int", i |-> i]
FloatV(i) == [k |-> "float", f |-> i]
StrV(s) == [k |-> "str", s |-> s]
ListV(s) == [k |-> "list", l |-> s]
DictV(f) == [k |-> "dict", d |-> f]
TrueV == BoolV(TRUE)
FalseV == BoolV(FALSE)
EmptyMap == [x \in {} |-> NoneV]

Range(s) == {s[i] : i \in DOMAIN s}

\* bool(v)
Truthy(v) ==
  CASE v.k = "null" -> FALSE
    [] v.k = "bool" -> v.b
    [] v.k = "int" -> v.i # 0
    [] v.k = "float" -> v.f # 0
    [] v.k = "str" -> v.s # ""
    [] v.k = "list" -> Len(v.l) > 0
    [] OTHER -> DOMAIN v.d # {}

IsNum(v) == v.k \in {"bool", "int", "float"}
NumOf(v) ==
  CASE v.k = "bool" -> (IF v.b THEN 1 ELSE 0)
    [] v.k = "int" -> v.i
    [] OTHER -> v.f

\* x == y
RECURSIVE PyEq(_, _)
PyEq(x, y) ==
  CASE IsNum(x) /\ IsNum(y) -> NumOf(x) = NumOf(y)
    [] x.k = "list" /\ y.k = "list" ->
         /\ Len(x.l) = Len(y.l)
         /\ \A i \in DOMAIN x.l : PyEq(x.l[i], y.l[i])
    [] x.k = "dict" /\ y.k = "dict" ->
         /\ DOMAIN x.d = DOMAIN y.d
         /\ \A kk \in DOMAIN x.d : PyEq(x.d[kk], y.d[kk])
    [] x.k = y.k -> x = y
    [] OTHER -> FALSE

\* x in seq, for a Python list seq
PyInSeq(x, seq) == \E i \in DOMAIN seq : PyEq(seq[i], x)

\* hash(v) succeeds
Hashable(v) == v.k \notin {"list", "dict"}

\* s.lower(), on the strings of the model
Lower(s) == IF s \in {"None", "NONE"} THEN "none" ELSE s

\* str(val).lower() == "none": str(None) is "None"; str of a bool is
\* "True"/"False", of a number its digits, of a list "[...]", of a dict "{...}"
StrLowerIsNone(val) ==
  CASE val.k = "null" -> TRUE
    [] val.k = "str" -> Lower(val.s) = "none"
    [] OTHER -> FALSE

\* the characters of a string, for the strings that reach an iteration
Chars(s) ==
  CASE s = "none" -> <<"n", "o", "n", "e">>
    [] s = "None" -> <<"N", "o", "n", "e">>
    [] s = "NONE" -> <<"N", "O", "N", "E">>
    [] OTHER -> <<s>>

\* k in s, for a key k and a string s: substring test
SubStr(kk, s) == \E i \in DOMAIN Chars(s) : Chars(s)[i] = kk

\* isinstance(val, ty): bool is a subclass of int
IsInstance(val, ty) ==
  CASE ty = "str" -> val.k = "str"
    [] ty = "int" -> val.k \in {"int", "bool"}
    [] ty = "bool" -> val.k = "bool"
    [] ty = "float" -> val.k = "float"
    [] ty = "list" -> val.k = "list"
    [] ty = "dict" -> val.k = "dict"
    [] OTHER -> FALSE

(***************************************************************************)
(* Errors.  path is the sequence of path segments: StrV(k) is ".k" (the    *)
(* first one the root name), IntV(i) is "[i]".                             *)
(***************************************************************************)
NoErr == [kind |-> "ok", msg |-> "", path |-> <<>>, value |-> NoneV,
          arg |-> NoneV, list |-> <<>>]
YamlError(path, value, msg, arg, list) ==
  [kind |-> "YamlError", msg |-> msg, path |-> path, value |-> value,
   arg |-> arg, list |-> list]
PyError(kind, msg) ==
  [kind |-> kind, msg |-> msg, path |-> <<>>, value |-> NoneV,
   arg |-> NoneV, list |-> <<>>]

(***************************************************************************)
(* Compiled types.                                                         *)
(***************************************************************************)
ScalarT(name, type, values, required, default, forbidden, maybenull) ==
  [c |-> "Type", name |-> name, type |-> type, values |-> values,
   spec |-> NoneV, names_type |-> NoneV, required |-> required,
   default |-> default, forbidden |-> forbidden, maybenull |-> maybenull]
ContainerT(c, name, type, spec, names_type, required, default, forbidden, maybenull) ==
  [c |-> c, name |-> name, type |-> type, values |-> <<>>,
   spec |-> spec, names_type |-> names_type, required |-> required,
   default |-> default, forbidden |-> forbidden, maybenull |-> maybenull]

\* the items of a dict with key set keys, in the iteration order ord
ItemsOrder(keys, ord) == SelectSeq(ord, LAMBDA kk : kk \in keys)

Result(e, val, t) == [err |-> e, val |-> val, typ |-> t]

(***************************************************************************)
(* Type.ensure_type, Type.ensure_values, Type.match                        *)
(***************************************************************************)
EnsureType(t, path, val) ==
  IF Truthy(t.maybenull) /\ val.k = "null" THEN NoErr
  ELSE IF t.type = "anything" THEN NoErr
  ELSE IF StrLowerIsNone(val) THEN NoErr
  ELSE IF ~IsInstance(val, t.type)
       THEN YamlError(path, val, "should be of type", StrV(t.type), <<>>)
  ELSE NoErr

\* ", ".join(self.values) raises TypeError on a value that is not a string
EnsureValues(t, path, val) ==
  IF Len(t.values) > 0 /\ ~PyInSeq(val, t.values)
  THEN IF \A i \in DOMAIN t.values : t.values[i].k = "str"
       THEN YamlError(path, val, "should be one of", val, t.values)
       ELSE PyError("TypeError", "join")
  ELSE NoErr

TypeMatch(t, path, val) ==
  LET e == EnsureType(t, path, val)
  IN IF e.kind # "ok" THEN e ELSE EnsureValues(t, path, val)

(***************************************************************************)
(* What the containers' loops need of a value that passed ensure_type: a   *)
(* list or a dict, but also None and the strings "none", "None", ...       *)
(***************************************************************************)
\* len(val) raises TypeError
LenRaises(val) == val.k \in {"null", "bool", "int", "float"}
PyLen(val) ==
  CASE val.k = "list" -> Len(val.l)
    [] val.k = "str" -> Len(Chars(val.s))
    [] OTHER -> Cardinality(DOMAIN val.d)
\* val[i-1]
PyItem(val, i) == IF val.k = "str" THEN StrV(Chars(val.s)[i]) ELSE val.l[i]
\* the elements of val as a list
PyElems(val) == [i \in 1..PyLen(val) |-> PyItem(val, i)]
\* the list val with its element i replaced (an element object mutated in place)
WithItem(val, i, x) == IF val.k = "list" THEN ListV([val.l EXCEPT ![i] = x]) ELSE val

\* kk in val raises TypeError
InRaises(val) == val.k \in {"null", "bool", "int", "float"}
\* kk in val
PyIn(kk, val) ==
  CASE val.k = "dict" -> kk \in DOMAIN val.d
    [] val.k = "str" -> SubStr(kk, val.s)
    [] val.k = "list" -> PyInSeq(StrV(kk), val.l)
    [] OTHER -> FALSE

\* val.keys(), as a list of values
KeyList(f, ord) ==
  LET ks == ItemsOrder(DOMAIN f, ord) IN [i \in DOMAIN ks |-> StrV(ks[i])]

\* val[kk] = x on a dict
SetKey(f, kk, x) == [y \in DOMAIN f \cup {kk} |-> IF y = kk THEN x ELSE f[y]]
\* del val[kk]
DelKey(f, kk) == [y \in DOMAIN f \ {kk} |-> f[y]]

(***************************************************************************)
(* Set.match: the uniqueness pass                                          *)
(***************************************************************************)
\* len(set(val))
PySetLen(seq) ==
  Cardinality({i \in DOMAIN seq : ~\E j \in 1..(i-1) : PyEq(seq[j], seq[i])})

\* the while loop: pop the head, fail on the first one found in the rest
RECURSIVE FirstDup(_)
FirstDup(seq) ==
  IF seq = <<>> THEN <<>>
  ELSE IF PyInSeq(Head(seq), Tail(seq)) THEN <<Head(seq)>>
  ELSE FirstDup(Tail(seq))

SetUnique(path, val) ==
  LET seq == PyElems(val)
  IN IF \E i \in DOMAIN seq : ~Hashable(seq[i])
     THEN PyError("TypeError", "unhashable")
     ELSE IF PyLen(val) # PySetLen(seq)
     THEN IF val.k # "list"
          THEN PyError("AttributeError", "pop")
          ELSE IF FirstDup(seq) # <<>>
               THEN YamlError(path, val, "is included several times in a set",
                              FirstDup(seq)[1], <<>>)
               ELSE NoErr
     ELSE NoErr

(***************************************************************************)
(* Dict.iter_and_match: one declared field of the first loop               *)
(***************************************************************************)
\* the required and the forbidden check of one declared field
FieldError(s, kk, path, val, ord) ==
  IF Truthy(s.required) /\ InRaises(val) THEN PyError("TypeError", "in")
  ELSE IF Truthy(s.required) /\ ~PyIn(kk, val)
  THEN IF val.k = "dict"
       THEN YamlError(path, val, "needs to define the option", StrV(kk),
                      KeyList(val.d, ord.d))
       ELSE PyError("AttributeError", "keys")
  ELSE IF Truthy(s.forbidden) /\ InRaises(val) THEN PyError("TypeError", "in")
  ELSE IF Truthy(s.forbidden) /\ PyIn(kk, val)
  THEN YamlError(path, val, "is forbidden", StrV(kk), <<>>)
  ELSE NoErr

\* a variant of FieldDefault that assigns the default over a supplied value
FieldDefault_Overwrite(s, kk, val) ==
  IF s.default # NoneV /\ val.k = "dict"
  THEN [err |-> NoErr, val |-> DictV(SetKey(val.d, kk, s.default))]
  ELSE [err |-> NoErr, val |-> val]

\* the default of one declared field, injected when the field is absent
FieldDefault(s, kk, val) ==
  IF s.default # NoneV /\ InRaises(val)
  THEN [err |-> PyError("TypeError", "in"), val |-> val]
  ELSE IF s.default # NoneV /\ ~PyIn(kk, val)
  THEN IF val.k = "dict"
       THEN [err |-> NoErr, val |-> DictV(SetKey(val.d, kk, s.default))]
       ELSE [err |-> PyError("TypeError", "item assignment"), val |-> val]
  ELSE [err |-> NoErr, val |-> val]

\* a variant of DictField that injects the default before the required check
DictField_DefaultFirst(s, kk, path, val, ord) ==
  LET r == FieldDefault(s, kk, val)
  IN IF r.err.kind # "ok" THEN r
     ELSE [err |-> FieldError(s, kk, path, r.val, ord), val |-> r.val]

DictField(s, kk, path, val, ord) ==
  LET e == FieldError(s, kk, path, val, ord)
  IN IF e.kind # "ok" THEN [err |-> e, val |-> val]
     ELSE FieldDefault(s, kk, val)

\* the first loop, over self.spec.items() from position i on
RECURSIVE DictLoop1(_, _, _, _, _)
DictLoop1(t, path, val, ord, i) ==
  LET ks == ItemsOrder(DOMAIN t.spec, ord.s)
  IN IF i > Len(ks) THEN [err |-> NoErr, val |-> val]
     ELSE LET r == DictField(t.spec[ks[i]], ks[i], path, val, ord)
          IN IF r.err.kind # "ok" THEN r
             ELSE DictLoop1(t, path, r.val, ord, i + 1)

(***************************************************************************)
(* Container.match and the iter_and_match of List, Set, Dict and Map.      *)
(* ord.s is the iteration order of the schema's dicts, ord.d that of the   *)
(* data's dicts.  Each returns Result(error, data as mutated, type as      *)
(* mutated).                                                               *)
(***************************************************************************)
RECURSIVE Match(_, _, _, _)
RECURSIVE ListLoop(_, _, _, _, _)
RECURSIVE DictLoop2(_, _, _, _, _, _)
RECURSIVE MapLoop(_, _, _, _, _)

\* Container.match_spec: an AttributeError is raised again as AttributeError
MatchSpec(s, path, val, ord) ==
  LET r == Match(s, path, val, ord)
  IN IF r.err.kind = "AttributeError"
     THEN Result(PyError("AttributeError", "Error in"), r.val, r.typ)
     ELSE r

\* List.iter_and_match, from element i on
ListLoop(t, path, val, ord, i) ==
  IF LenRaises(val) THEN Result(PyError("TypeError", "len"), val, t)
  ELSE IF i > PyLen(val) THEN Result(NoErr, val, t)
  ELSE LET r == MatchSpec(t.spec, Append(path, IntV(i - 1)), PyItem(val, i), ord)
           t2 == [t EXCEPT !.spec = r.typ]
           val2 == WithItem(val, i, r.val)
       IN IF r.err.kind # "ok" THEN Result(r.err, val2, t2)
          ELSE ListLoop(t2, path, val2, ord, i + 1)

\* a variant of KeyNotDefined that lists the keys of the data
KeyNotDefined_DataKeys(t, path, val, kk, ord) ==
  YamlError(path, val, "not defined in spec file", StrV(kk), KeyList(val.d, ord.d))

\* Dict.iter_and_match, second loop: the error for a key that is not declared
KeyNotDefined(t, path, val, kk, ord) ==
  YamlError(path, val, "not defined in spec file", StrV(kk), KeyList(t.spec, ord.s))

\* Dict.iter_and_match, second loop: the items of val from position i on;
\* inj are the keys the first loop injected, whose value is the very object
\* that is the field's default
DictLoop2(t, path, val, ord, inj, i) ==
  LET ks == ItemsOrder(DOMAIN val.d, ord.d)
  IN IF i > Len(ks) THEN Result(NoErr, val, t)
     ELSE LET kk == ks[i]
          IN IF kk \notin DOMAIN t.spec
             THEN Result(KeyNotDefined(t, path, val, kk, ord), val, t)
             ELSE LET r == MatchSpec(t.spec[kk], Append(path, StrV(kk)), val.d[kk], ord)
                      s2 == IF kk \in inj THEN [r.typ EXCEPT !.default = r.val]
                            ELSE r.typ
                      t2 == [t EXCEPT !.spec = SetKey(t.spec, kk, s2)]
                      val2 == DictV(SetKey(val.d, kk, r.val))
                  IN IF r.err.kind # "ok" THEN Result(r.err, val2, t2)
                     ELSE DictLoop2(t2, path, val2, ord, inj, i + 1)

DictIter(t, path, val, ord) ==
  LET r1 == DictLoop1(t, path, val, ord, 1)
  IN IF r1.err.kind # "ok" THEN Result(r1.err, r1.val, t)
     ELSE IF val.k # "dict" THEN Result(PyError("AttributeError", "items"), val, t)
     ELSE DictLoop2(t, path, r1.val, ord, DOMAIN r1.val.d \ DOMAIN val.d, 1)

\* Map.iter_and_match, the loop over val.items() from position i on
MapLoop(t, path, val, ord, i) ==
  LET ks == ItemsOrder(DOMAIN val.d, ord.d)
  IN IF i > Len(ks) THEN Result(NoErr, val, t)
     ELSE LET kk == ks[i]
              r == MatchSpec(t.spec, Append(path, StrV(kk)), val.d[kk], ord)
              t2 == [t EXCEPT !.spec = r.typ]
              val2 == DictV(SetKey(val.d, kk, r.val))
          IN IF r.err.kind # "ok" THEN Result(r.err, val2, t2)
             ELSE MapLoop(t2, path, val2, ord, i + 1)

\* keyst = Set(n, list, self.names_type); keyst.maybenull = False
KeysT(t) ==
  ContainerT("Set", t.name, "list", t.names_type, NoneV, NoneV, NoneV, NoneV, FalseV)

\* Set.match: Container.match, then the uniqueness pass
SetMatch(t, path, val, ord) ==
  LET e == EnsureType(t, path, val)
      r == ListLoop(t, path, val, ord, 1)
  IN IF e.kind # "ok" THEN Result(e, val, t)
     ELSE IF r.err.kind # "ok" THEN r
     ELSE Result(SetUnique(path, r.val), r.val, r.typ)

MapIter(t, path, val, ord) ==
  IF t.names_type # NoneV /\ val.k # "dict"
  THEN Result(PyError("AttributeError", "keys"), val, t)
  ELSE LET n == <<StrV(t.name), StrV("_names")>>
           rk == IF t.names_type # NoneV
                 THEN SetMatch(KeysT(t), n, ListV(KeyList(val.d, ord.d)), ord)
                 ELSE Result(NoErr, val, t)
           t2 == IF t.names_type # NoneV
                 THEN [t EXCEPT !.names_type = rk.typ.spec] ELSE t
       IN IF rk.err.kind # "ok" THEN Result(rk.err, val, t2)
          ELSE IF val.k = "null"
          THEN Result(YamlError(path, val, "Invalid empty value", NoneV, <<>>), val, t2)
          ELSE IF val.k # "dict" THEN Result(PyError("AttributeError", "items"), val, t2)
          ELSE MapLoop(t2, path, val, ord, 1)

IterAndMatch(t, path, val, ord) ==
  CASE t.c = "List" -> ListLoop(t, path, val, ord, 1)
    [] t.c = "Dict" -> DictIter(t, path, val, ord)
    [] OTHER -> MapIter(t, path, val, ord)

ContainerMatch(t, path, val, ord) ==
  LET e == EnsureType(t, path, val)
  IN IF e.kind # "ok" THEN Result(e, val, t)
     ELSE IterAndMatch(t, path, val, ord)

\* t.match(path, val), by the class of t
Match(t, path, val, ord) ==
  CASE t.c = "Type" -> Result(TypeMatch(t, path, val), val, t)
    [] t.c = "Set" -> SetMatch(t, path, val, ord)
    [] OTHER -> ContainerMatch(t, path, val, ord)

(***************************************************************************)
(* The validator's inputs: compiled types as createType builds them, and   *)
(* data trees as the loader builds them.                                   *)
(***************************************************************************)
Keys == {"a", "b", "c"}
Perms(S) == {p \in [1..Cardinality(S) -> S] : \A i, j \in DOMAIN p : i # j => p[i] # p[j]}
Orders == {[s |-> p, d |-> q] : p \in Perms(Keys), q \in Perms(Keys)}
RootPath == <<StrV("root")>>

Plain(name, type) == ScalarT(name, type, <<>>, NoneV, NoneV, NoneV, NoneV)
SeqsUpTo(S, n) == UNION {[1..m -> S] : m \in 0..n}
MapsOver(K, V) == UNION {[D -> V] : D \in SUBSET K}

\* scalar types against scalar values
ScalarKinds == {"str", "int", "bool", "float", "anything"}
ScalarVals ==
  {NoneV, TrueV, FloatV(1), StrV("x"), StrV("y"), StrV("none"), StrV("None")}
    \cup {IntV(i) : i \in 1..MaxInt}
ValueLists == {<<>>, <<StrV("x"), StrV("y")>>, <<IntV(1), IntV(2)>>}
ScalarTypes ==
  {ScalarT("root", kd, vs, NoneV, NoneV, NoneV, mn) :
     kd \in ScalarKinds, vs \in ValueLists, mn \in {NoneV, TrueV}}
ScalarCases == ScalarTypes \X ScalarVals

\* lists and sets against sequences; the element type of a "listof" type is
\* compiled from the same node, so it carries the list's attributes
ElemTypes ==
  {Plain("string", "str"), Plain("integer", "int"), Plain("anything", "anything"),
   ContainerT("List", "listofstrings", "list", Plain("string", "str"), NoneV,
              NoneV, NoneV, NoneV, NoneV)}
SeqTypes ==
  {ContainerT(c, "root", "list", e, NoneV, NoneV, NoneV, NoneV, NoneV) :
     c \in {"Set"}, e \in ElemTypes}
  \cup {ContainerT("List", "root", "list",
                    ScalarT("string", "str", <<>>, NoneV, NoneV, NoneV, mn),
                    NoneV, NoneV, NoneV, NoneV, mn) : mn \in {NoneV, TrueV}}
ElemVals == {StrV("x"), StrV("y"), IntV(1), TrueV, ListV(<<StrV("x")>>)}
SeqVals == {ListV(q) : q \in SeqsUpTo(ElemVals, MaxLen)}
NonContainers == {NoneV, StrV("none"), StrV("None"), IntV(1)}
SeqCases == SeqTypes \X (SeqVals \cup NonContainers)

\* maps, with and without a key-type constraint
NamesTypes == {NoneV, ScalarT("string", "str", <<StrV("a"), StrV("b")>>,
                              NoneV, NoneV, NoneV, NoneV)}
MapTypes ==
  {ContainerT("Map", "root", "dict", Plain("string", "str"), nt,
              NoneV, NoneV, NoneV, NoneV) : nt \in NamesTypes}
MapVals == {DictV(f) : f \in MapsOver({"a", "c"}, {StrV("x"), IntV(1)})}
MapCases == MapTypes \X (MapVals \cup NonContainers)

\* dicts: field a is a scalar with every combination of the attributes,
\* field b a scalar or a nested dict
FieldA ==
  {ScalarT("a", kd, <<>>, rq, df, fb, mn) :
     kd \in {"str", "int"}, rq \in {NoneV, TrueV}, df \in {NoneV, StrV("x")},
     fb \in {NoneV, TrueV}, mn \in {NoneV, TrueV}}
Inner(fb) ==
  [c \in {"c"} |-> ScalarT("c", "str", <<>>, NoneV, StrV("z"), fb, NoneV)]
FieldB ==
  {ScalarT("b", "str", <<>>, rq, df, fb, NoneV) :
     rq \in {NoneV, TrueV}, df \in {NoneV, StrV("y")}, fb \in {NoneV}}
  \cup {ScalarT("b", "str", <<>>, NoneV, NoneV, TrueV, NoneV)}
  \cup {ContainerT("Dict", "b", "dict", Inner(fb), NoneV, NoneV, df, NoneV, NoneV) :
          fb \in {NoneV, TrueV}, df \in {NoneV, DictV(EmptyMap)}}
Kids ==
  {f \in MapsOver({"a", "b"}, FieldA \cup FieldB) :
     /\ "a" \in DOMAIN f => f["a"] \in FieldA
     /\ "b" \in DOMAIN f => f["b"] \in FieldB}
DictTypes ==
  {ContainerT("Dict", "root", "dict", f, NoneV, NoneV, NoneV, NoneV, NoneV) : f \in Kids}
DictVals ==
  {DictV(f) : f \in
     {g \in MapsOver(Keys, {NoneV, IntV(1), StrV("x"), StrV("y"), DictV(EmptyMap),
                            DictV([c \in {"c"} |-> StrV("z")])}) :
        /\ "a" \in DOMAIN g => g["a"] \in {NoneV, IntV(1), StrV("x")}
        /\ "b" \in DOMAIN g => g["b"] \in {StrV("y"), DictV(EmptyMap),
                                           DictV([c \in {"c"} |-> StrV("z")])}
        /\ "c" \in DOMAIN g => g["c"] = StrV("x")}}
DictCases == DictTypes \X (DictVals \cup NonContainers)

\* a list of dicts whose absent field shares one default object
SiblingTypes ==
  {ContainerT("List", "root", "list",
     ContainerT("Dict", "dict", "dict",
        [b \in {"b"} |-> ContainerT("Dict", "b", "dict", Inner(fb), NoneV,
                                    NoneV, DictV(EmptyMap), NoneV, NoneV)],
        NoneV, NoneV, NoneV, NoneV, NoneV),
     NoneV, NoneV, NoneV, NoneV, NoneV) : fb \in {NoneV, TrueV}}
SiblingVals ==
  {ListV(q) : q \in SeqsUpTo({DictV(EmptyMap), DictV([b \in {"b"} |-> DictV(EmptyMap)])}, 2)}
SiblingCases == SiblingTypes \X SiblingVals

ValidateCases == ScalarCases \cup SeqCases \cup MapCases \cup DictCases \cup SiblingCases

(***************************************************************************)
(* The validator as a state machine: a compiled type and a data tree are   *)
(* loaded; t.match runs on them; a successful match may be run again.      *)
(***************************************************************************)
\* no customization files are being mixed
NoMix == [files |-> <<>>, customizations |-> <<>>, stack |-> <<>>, log |-> <<>>,
          st |-> "idle"]
\* no pair of rules has been applied
NoPair == [first |-> <<>>, second |-> <<>>, cerr1 |-> NoErr, cerr2 |-> NoErr]
\* no batch of types is being imported
NoImp ==
  [exists |-> FALSE, batch |-> <<>>, types0 |-> <<>>,
   l |-> [types |-> <<>>, queue |-> <<>>, problematics |-> <<>>, attempts |-> 0,
          st |-> "idle", raised |-> NoErr]]
NoFind == [st |-> "idle"]
NoCreate == [st |-> "idle"]
NoBuild == [st |-> "idle"]
NoLoad == [st |-> "idle"]
NoRule == [selector |-> <<>>, value |-> NoneV, prefix |-> <<>>, final |-> "", suffix |-> <<>>]

InitValidate ==
  /\ \E cs \in ValidateCases :
       /\ typ = cs[1]
       /\ data = cs[2]
       /\ typ0 = cs[1]
       /\ data0 = cs[2]
  /\ pc = "loaded"
  /\ err = NoErr
  /\ obj = NoneV
  /\ obj0 = NoneV
  /\ rule = NoRule
  /\ cerr = NoErr
  /\ mix = NoMix
  /\ pair = NoPair
  /\ imp = NoImp
  /\ find = NoFind /\ ct = NoCreate /\ bld = NoBuild /\ ld = NoLoad

\* t.match(tname, self._dict)
Validate ==
  /\ pc = "loaded"
  /\ \E ord \in Orders :
       LET r == Match(typ, RootPath, data, ord)
       IN /\ err' = r.err
          /\ data' = r.val
          /\ typ' = r.typ
  /\ pc' = "matched"
  /\ UNCHANGED <<typ0, data0, obj, obj0, rule, cerr, mix, pair, imp, find, ct, bld, ld>>

\* the same compiled type matched once more against the validated tree
Revalidate ==
  /\ pc = "matched"
  /\ err.kind = "ok"
  /\ \E ord \in Orders :
       LET r == Match(typ, RootPath, data, ord)
       IN /\ err' = r.err
          /\ data' = r.val
          /\ typ' = r.typ
  /\ data0' = data
  /\ typ0' = typ
  /\ pc' = "rematched"
  /\ UNCHANGED <<obj, obj0, rule, cerr, mix, pair, imp, find, ct, bld, ld>>

NextValidate == Validate \/ Revalidate

SpecValidate == InitValidate /\ [][NextValidate]_vars

(***************************************************************************)
(* Properties of the validator.                                            *)
(***************************************************************************)
FixedOrd == [s |-> <<"a", "b", "c">>, d |-> <<"a", "b", "c">>]
SeqSet(q) == {q[i].s : i \in DOMAIN q}

\* a Dict type has been matched against a mapping
DictCase == pc = "matched" /\ typ0.c = "Dict" /\ data0.k = "dict"
Undeclared == DOMAIN data0.d \ DOMAIN typ0.spec
ReqAbsent ==
  {kk \in DOMAIN typ0.spec : Truthy(typ0.spec[kk].required) /\ kk \notin DOMAIN data0.d}
ForbPresent ==
  {kk \in DOMAIN typ0.spec : Truthy(typ0.spec[kk].forbidden) /\ kk \in DOMAIN data0.d}
Defaulted ==
  {kk \in DOMAIN typ0.spec : typ0.spec[kk].default # NoneV /\ kk \notin DOMAIN data0.d}
\* the declared field kk, as the second loop meets it, fails its own match
FieldFails(kk) ==
  LET v == IF kk \in DOMAIN data0.d THEN data0.d[kk] ELSE typ0.spec[kk].default
  IN Match(typ0.spec[kk], Append(RootPath, StrV(kk)), v, FixedOrd).err.kind # "ok"
IsKeyError ==
  /\ err.kind = "YamlError"
  /\ err.msg = "not defined in spec file"
  /\ err.path = RootPath

\* C1 (as stated): a mapping with a key that is not declared always fails with
\* the "Key ... not defined in spec file" error listing all declared names.
C1_Original ==
  (DictCase /\ Undeclared # {}) =>
     /\ IsKeyError
     /\ err.arg.s \in Undeclared
     /\ SeqSet(err.list) = DOMAIN typ0.spec

\* C1 (amended): a mapping with a key that is not declared always fails; the
\* failure is the "Key ... not defined" error, naming an undeclared key and
\* listing all declared names, whenever no declared field is required and
\* absent, forbidden and present, or fails its own match; and that error is
\* never raised while a required field is absent or a forbidden one present.
C1_UndeclaredKeyFails ==
  (DictCase /\ Undeclared # {}) =>
     /\ err.kind # "ok"
     /\ IsKeyError =>
          /\ err.arg.s \in Undeclared
          /\ SeqSet(err.list) = DOMAIN typ0.spec
          /\ Len(err.list) = Cardinality(DOMAIN typ0.spec)
          /\ ReqAbsent = {} /\ ForbPresent = {}
     /\ (/\ ReqAbsent = {} /\ ForbPresent = {}
         /\ \A kk \in (DOMAIN typ0.spec \cap DOMAIN data0.d) \cup Defaulted :
              ~FieldFails(kk))
        => IsKeyError

C1_Witness ==
  /\ DictCase /\ Undeclared # {} /\ IsKeyError
  /\ Cardinality(DOMAIN typ0.spec) = 2

\* C2 (as stated): when a required declared field is absent the match fails
\* with an error at the mapping's path that names that field.
C2_Original ==
  DictCase =>
    \A kk \in ReqAbsent :
       /\ err.kind = "YamlError"
       /\ err.path = RootPath
       /\ err.msg = "needs to define the option"
       /\ err.arg = StrV(kk)

\* C2 (amended): when a required declared field is absent the match fails
\* with a ValidationError at the mapping's path carrying the mapping; the
\* error names a required absent field or a forbidden present field (the
\* first such field in the schema's iteration order), hence that field when
\* it is the only one; no required absent field receives its default.
C2_RequiredAbsentFails ==
  (DictCase /\ ReqAbsent # {}) =>
     /\ err.kind = "YamlError"
     /\ err.path = RootPath
     /\ \/ err.msg = "needs to define the option" /\ err.arg.s \in ReqAbsent
        \/ err.msg = "is forbidden" /\ err.arg.s \in ForbPresent
     /\ \A kk \in ReqAbsent :
          /\ (ReqAbsent = {kk} /\ ForbPresent = {}) =>
                (err.msg = "needs to define the option" /\ err.arg = StrV(kk))
          /\ kk \notin DOMAIN data.d
     /\ err.msg = "needs to define the option" =>
          SeqSet(err.list) = DOMAIN err.value.d

C2_Witness ==
  /\ DictCase
  /\ \E kk \in ReqAbsent : typ0.spec[kk].default # NoneV /\ err.arg = StrV(kk)
  /\ err.msg = "needs to define the option"

\* some value occurs more than once in the sequence q
HasRepeat(q) == \E i, j \in DOMAIN q : i < j /\ PyEq(q[i], q[j])
\* the leftmost value of q that occurs again later
LeftmostRepeated(q) ==
  q[CHOOSE i \in DOMAIN q :
      /\ \E j \in DOMAIN q : i < j /\ PyEq(q[i], q[j])
      /\ \A h \in 1..(i-1) : ~\E j \in DOMAIN q : h < j /\ PyEq(q[h], q[j])]
SetCase ==
  /\ pc = "matched" /\ typ0.c = "Set" /\ data0.k = "list"
  /\ \A i \in DOMAIN data0.l :
       Match(typ0.spec, RootPath, data0.l[i], FixedOrd).err.kind = "ok"

\* C3: for a Set type and a sequence whose elements match the element type,
\* the match fails iff some value occurs more than once, the error then names
\* the leftmost value that occurs again, and the sequence is left unmodified.
C3_Original ==
  SetCase =>
    /\ (err.kind # "ok") <=> HasRepeat(data0.l)
    /\ err.kind # "ok" =>
         /\ err.kind = "YamlError"
         /\ err.msg = "is included several times in a set"
         /\ err.arg = LeftmostRepeated(data0.l)
    /\ data = data0

\* new is old with, at most, absent fields added to its mappings
RECURSIVE Extends(_, _)
Extends(new, old) ==
  CASE old.k = "dict" ->
         /\ new.k = "dict"
         /\ DOMAIN old.d \subseteq DOMAIN new.d
         /\ \A kk \in DOMAIN old.d : Extends(new.d[kk], old.d[kk])
    [] old.k = "list" ->
         /\ new.k = "list"
         /\ Len(new.l) = Len(old.l)
         /\ \A i \in DOMAIN old.l : Extends(new.l[i], old.l[i])
    [] OTHER -> new = old

MatchedDict == DictCase /\ err.kind = "ok"

\* C4 (as stated): after a successful Dict match every absent field with a
\* non-null default holds exactly the default, every supplied key keeps the
\* value it had, and no other key is added.
C4_Original ==
  MatchedDict =>
     /\ \A kk \in Defaulted :
          kk \in DOMAIN data.d /\ data.d[kk] = typ0.spec[kk].default
     /\ \A kk \in DOMAIN data0.d :
          kk \in DOMAIN data.d /\ data.d[kk] = data0.d[kk]
     /\ DOMAIN data.d = DOMAIN data0.d \cup Defaulted

\* C4 (amended): after a successful Dict match every absent field with a
\* non-null default is present with its default, every supplied key is
\* present with the value it had, and no other key is added; a value that is
\* a mapping may have gained, recursively, the defaults of its own absent
\* fields, and is otherwise unchanged; scalars are never changed.
C4_DefaultsInjected ==
  MatchedDict =>
     /\ \A kk \in Defaulted :
          /\ kk \in DOMAIN data.d
          /\ Extends(data.d[kk], typ0.spec[kk].default)
          /\ typ0.spec[kk].c = "Type" => data.d[kk] = typ0.spec[kk].default
     /\ \A kk \in DOMAIN data0.d :
          /\ kk \in DOMAIN data.d
          /\ Extends(data.d[kk], data0.d[kk])
          /\ typ0.spec[kk].c = "Type" => data.d[kk] = data0.d[kk]
     /\ DOMAIN data.d = DOMAIN data0.d \cup Defaulted

C4_Witness ==
  /\ MatchedDict
  /\ \E kk \in Defaulted : data.d[kk] # typ0.spec[kk].default
  /\ \E kk \in DOMAIN data0.d : typ0.spec[kk].default # NoneV

\* C5: a tree that matched, matched again against the same compiled type,
\* matches and is not changed.
C5_Original ==
  pc = "rematched" => (err.kind = "ok" /\ data = data0)

\* the escape conditions of a scalar type
EscapeNull == Truthy(typ0.maybenull) /\ data0.k = "null"
EscapeAnything == typ0.type = "anything"
EscapeNone == StrLowerIsNone(data0)
ScalarCase == pc = "matched" /\ typ0.c = "Type"

\* C6: each escape condition makes the whole match of a scalar type pass,
\* also with a non-empty values list that does not hold the value.
C6_Original ==
  (ScalarCase /\ (EscapeNull \/ EscapeAnything \/ EscapeNone)) => err.kind = "ok"

\* the native kind of a value, as the name of the Python type
NativeKind(val) == val.k

\* C7: for a scalar type of kind string, integer, boolean or float and a
\* value under no escape condition, the match passes iff the value's native
\* kind is exactly the declared kind and the value is in a non-empty values
\* list; a membership failure lists the allowed values; a null does not pass
\* a type that is not maybenull.
C7_Original ==
  (ScalarCase /\ typ0.type \in {"str", "int", "bool", "float"}) =>
     /\ (~EscapeNull /\ ~EscapeNone) =>
          /\ err.kind = "ok" <=>
               /\ NativeKind(data0) = typ0.type
               /\ typ0.values = <<>> \/ PyInSeq(data0, typ0.values)
          /\ (NativeKind(data0) = typ0.type /\ err.kind # "ok") =>
               (err.kind = "YamlError" /\ err.list = typ0.values)
     /\ (data0.k = "null" /\ ~Truthy(typ0.maybenull)) => err.kind # "ok"

\* C8: a match succeeds or fails with a ValidationError carrying the path and
\* the value of the offending node; a Map matched against null fails with
\* "Invalid empty value", with or without a key-type constraint.
C8_Original ==
  pc = "matched" =>
     /\ err.kind \in {"ok", "YamlError"}
     /\ (typ0.c = "Map" /\ data0.k = "null") =>
          (err.kind = "YamlError" /\ err.msg = "Invalid empty value")

(***************************************************************************)
(* YamlConfigBuilder.applyCustomizationRule.  A selector is the sequence   *)
(* of its tokens: key names, action names, ".", ":" and " ".               *)
(***************************************************************************)
\* selector.find(tok) >= 0
Find(sel, tok) == \E i \in DOMAIN sel : sel[i] = tok
IndexOf(sel, tok) ==
  CHOOSE i \in DOMAIN sel : sel[i] = tok /\ \A j \in 1..(i-1) : sel[j] # tok
\* selector.split(tok, 1)
Before(sel, tok) == SubSeq(sel, 1, IndexOf(sel, tok) - 1)
After(sel, tok) == SubSeq(sel, IndexOf(sel, tok) + 1, Len(sel))
\* action.strip()
RECURSIVE LStrip(_)
LStrip(q) == IF q # <<>> /\ Head(q) = " " THEN LStrip(Tail(q)) ELSE q
RECURSIVE RStrip(_)
RStrip(q) ==
  IF q # <<>> /\ q[Len(q)] = " " THEN RStrip(SubSeq(q, 1, Len(q) - 1)) ELSE q
Strip(q) == RStrip(LStrip(q))
\* the string a token sequence spells; the selectors of the model have
\* segments of one token at most
Join(q) ==
  IF q = <<>> THEN "" ELSE IF Len(q) = 1 THEN q[1] ELSE "<compound>"

CustomizationError(msg, arg, value) ==
  [kind |-> "CustomizationError", msg |-> msg, path |-> <<>>, value |-> value,
   arg |-> arg, list |-> <<>>]
Outcome(e, o) == [err |-> e, obj |-> o]

\* a variant of RemoveFirst that removes every element equal to x
RECURSIVE RemoveFirst_All(_, _)
RemoveFirst_All(q, x) ==
  IF q = <<>> THEN <<>>
  ELSE IF PyEq(Head(q), x) THEN RemoveFirst_All(Tail(q), x)
  ELSE <<Head(q)>> \o RemoveFirst_All(Tail(q), x)

\* list.remove(x): the list without the first element equal to x
RECURSIVE RemoveFirst(_, _)
RemoveFirst(q, x) ==
  IF q = <<>> THEN <<>>
  ELSE IF PyEq(Head(q), x) THEN Tail(q)
  ELSE <<Head(q)>> \o RemoveFirst(Tail(q), x)

\* for v in value: target.remove(v), from element i of value on; the elements
\* removed before a failure stay removed
RECURSIVE RemoveEach(_, _, _)
RemoveEach(target, vs, i) ==
  IF i > Len(vs) THEN Outcome(NoErr, target)
  ELSE IF target.k # "list" THEN Outcome(PyError("AttributeError", "remove"), target)
  ELSE IF ~PyInSeq(vs[i], target.l) THEN Outcome(PyError("ValueError", "remove"), target)
  ELSE RemoveEach(ListV(RemoveFirst(target.l, vs[i])), vs, i + 1)

\* target.pop(value)
PopAt(target, value) ==
  IF target.k = "dict"
  THEN IF ~Hashable(value) THEN Outcome(PyError("TypeError", "unhashable"), target)
       ELSE IF value.k = "str" /\ value.s \in DOMAIN target.d
       THEN Outcome(NoErr, DictV(DelKey(target.d, value.s)))
       ELSE Outcome(PyError("KeyError", "pop"), target)
  ELSE IF target.k # "list" THEN Outcome(PyError("AttributeError", "pop"), target)
  ELSE IF value.k \notin {"int", "bool"} THEN Outcome(PyError("TypeError", "pop"), target)
  ELSE LET n == Len(target.l)
           i == IF NumOf(value) < 0 THEN NumOf(value) + n ELSE NumOf(value)
       IN IF i < 0 \/ i >= n THEN Outcome(PyError("IndexError", "pop"), target)
          ELSE Outcome(NoErr, ListV(SubSeq(target.l, 1, i) \o SubSeq(target.l, i + 2, n)))

\* target.extend(value)
ExtendBy(target, value) ==
  IF target.k # "list" THEN Outcome(PyError("AttributeError", "extend"), target)
  ELSE CASE value.k = "list" -> Outcome(NoErr, ListV(target.l \o value.l))
         [] value.k = "str" ->
              Outcome(NoErr, ListV(target.l \o [i \in DOMAIN Chars(value.s) |->
                                                  StrV(Chars(value.s)[i])]))
         [] value.k = "dict" ->
              Outcome(NoErr, ListV(target.l \o KeyList(value.d, FixedOrd.d)))
         [] OTHER -> Outcome(PyError("TypeError", "not iterable"), target)

\* the list actions on obj[selector]
ListAction(o, selector, action, value) ==
  IF action = "REMOVE" /\ value = ListV(<<>>) THEN Outcome(NoErr, o)
  ELSE IF o.k # "dict" THEN Outcome(PyError("TypeError", "list indices"), o)
  ELSE IF selector \notin DOMAIN o.d THEN Outcome(PyError("KeyError", selector), o)
  ELSE LET target == o.d[selector]
           r == CASE action = "APPEND" ->
                       IF target.k = "list"
                       THEN Outcome(NoErr, ListV(Append(target.l, value)))
                       ELSE Outcome(PyError("AttributeError", "append"), target)
                  [] action = "EXTEND" -> ExtendBy(target, value)
                  [] action = "POP" -> PopAt(target, value)
                  [] OTHER ->
                       IF value.k = "list" THEN RemoveEach(target, value.l, 1)
                       ELSE RemoveEach(target, <<value>>, 1)
       IN Outcome(r.err, DictV(SetKey(o.d, selector, r.obj)))

\* a variant of ReplaceKey that leaves an absent key absent
ReplaceKey_NoCreate(o, selector, value) ==
  IF o.k = "dict" /\ selector \in DOMAIN o.d
  THEN Outcome(NoErr, DictV(SetKey(o.d, selector, value)))
  ELSE Outcome(NoErr, o)

\* a variant of ReplaceKey that rejects a non-list value over a list
ReplaceKey_KindChecked(o, selector, value) ==
  IF o.k # "dict" THEN Outcome(PyError("TypeError", "list indices"), o)
  ELSE IF /\ selector \in DOMAIN o.d
          /\ o.d[selector].k = "list"
          /\ value.k # "list"
  THEN Outcome(CustomizationError("can only replace list by other list",
                                  NoneV, value), o)
  ELSE Outcome(NoErr, DictV(SetKey(o.d, selector, value)))

\* a variant of ReplaceKey that leaves the mapping with that key alone
ReplaceKey_Alone(o, selector, value) ==
  IF o.k = "dict" THEN Outcome(NoErr, DictV([y \in {selector} |-> value]))
  ELSE Outcome(PyError("TypeError", "list indices"), o)

\* REPLACE with a non-empty selector: obj[selector] = value
ReplaceKey(o, selector, value) ==
  IF o.k = "dict" THEN Outcome(NoErr, DictV(SetKey(o.d, selector, value)))
  ELSE Outcome(PyError("TypeError", "list indices"), o)

\* a variant of ReplaceWhole that updates a mapping without clearing it first
ReplaceWhole_Merge(o, value) ==
  IF o.k = "list"
  THEN IF value.k # "list"
       THEN Outcome(CustomizationError("can only replace list by other list",
                                       NoneV, value), o)
       ELSE Outcome(NoErr, ListV(o.l \o value.l))
  ELSE IF value.k # "dict"
       THEN Outcome(CustomizationError("can only replace dict by other dict",
                                       NoneV, value), o)
       ELSE Outcome(NoErr, DictV([y \in DOMAIN o.d \cup DOMAIN value.d |->
                                    IF y \in DOMAIN value.d THEN value.d[y] ELSE o.d[y]]))

\* REPLACE with an empty selector: the contents of obj replaced in place
ReplaceWhole(o, value) ==
  IF o.k = "list"
  THEN IF value.k # "list"
       THEN Outcome(CustomizationError("can only replace list by other list",
                                       NoneV, value), o)
       ELSE Outcome(NoErr, ListV(value.l))
  ELSE IF value.k # "dict"
       THEN Outcome(CustomizationError("can only replace dict by other dict",
                                       NoneV, value), o)
       ELSE Outcome(NoErr, DictV(value.d))

\* a variant of DeleteAction that clears the mapping whatever the selector
DeleteAction_ClearAll(o, selector, value) ==
  IF value # NoneV
  THEN Outcome(CustomizationError("value is ignored because it is a delete",
                                  NoneV, value), o)
  ELSE IF o.k = "dict" THEN Outcome(NoErr, DictV(EmptyMap))
       ELSE Outcome(PyError("AttributeError", "clear"), o)

\* DEL, DELETE, DELETEIF
DeleteAction(o, selector, value) ==
  IF value # NoneV
  THEN Outcome(CustomizationError("value is ignored because it is a delete",
                                  NoneV, value), o)
  ELSE IF selector # ""
       THEN IF o.k = "dict" /\ selector \in DOMAIN o.d
            THEN Outcome(NoErr, DictV(DelKey(o.d, selector)))
            ELSE Outcome(NoErr, o)
       ELSE IF o.k = "dict" THEN Outcome(NoErr, DictV(EmptyMap))
            ELSE Outcome(PyError("AttributeError", "clear"), o)

\* a variant of MissingKey that lets DEL and DELETE pass, as DELETEIF does
MissingKey_DeleteAllowed(selector, present, action) ==
  /\ selector # "" /\ ~present
  /\ action \notin {"REPLACE", "DELETEIF", "DEL", "DELETE"}

\* the check for a final key that does not exist
MissingKey(selector, present, action) ==
  selector # "" /\ ~present /\ action \notin {"REPLACE", "DELETEIF"}

\* everything after the traversal loop, on the object the traversal reached
ApplyFinal(o, sel, value) ==
  LET hasAction == Find(sel, ":")
      selector == Join(IF hasAction THEN Before(sel, ":") ELSE sel)
      action == IF hasAction THEN Join(Strip(After(sel, ":"))) ELSE "REPLACE"
      present == PyIn(selector, o)
  IN IF MissingKey(selector, present, action)
     THEN Outcome(CustomizationError("wants to modify non-existing key",
                                     StrV(selector), o), o)
     ELSE IF selector # "" /\ present /\ o.k # "dict"
     THEN Outcome(PyError("TypeError", "list indices"), o)
     ELSE IF action = "REPLACE" /\ selector # "" THEN ReplaceKey(o, selector, value)
     ELSE IF action = "REPLACE" /\ o.k \in {"list", "dict"} THEN ReplaceWhole(o, value)
     ELSE IF action \in {"DEL", "DELETE", "DELETEIF"}
     THEN DeleteAction(o, selector, value)
     ELSE IF action \in {"APPEND", "EXTEND", "POP", "REMOVE"}
     THEN ListAction(o, selector, action, value)
     ELSE Outcome(CustomizationError("unsupported action", NoneV, NoneV), o)

\* the traversal loop, then the action; the object reached is mutated in place
RECURSIVE ApplyCustomizationRule(_, _, _)
ApplyCustomizationRule(o, sel, value) ==
  IF Find(sel, ".")
  THEN LET key == Join(Before(sel, "."))
           rest == After(sel, ".")
       IN IF ~PyIn(key, o)
          THEN IF o.k = "dict"
               THEN Outcome(CustomizationError("wants to traverse non-existing key",
                                               StrV(key), o), o)
               ELSE Outcome(PyError("AttributeError", "keys"), o)
          ELSE IF o.k # "dict" THEN Outcome(PyError("TypeError", "list indices"), o)
          ELSE IF o.d[key].k # "dict"
          THEN Outcome(CustomizationError("wants to traverse a non dictionary object",
                                          StrV(key), o.d[key]), o)
          ELSE LET r == ApplyCustomizationRule(o.d[key], rest, value)
               IN Outcome(r.err, DictV(SetKey(o.d, key, r.obj)))
  ELSE ApplyFinal(o, sel, value)

(***************************************************************************)
(* The customization engine's inputs: trees, and rules (selector, value).  *)
(* A selector is built from the keys before the last dot, the final        *)
(* segment (possibly empty) and the action suffix (possibly none).         *)
(***************************************************************************)
TreeLists == {ListV(q) : q \in SeqsUpTo({IntV(1), IntV(2)}, MaxLen)}
XDict == DictV([x \in {"x"} |-> IntV(1)])
InnerTrees ==
  {DictV(f) : f \in
     {g \in MapsOver({"b", "c"}, {IntV(1), XDict} \cup TreeLists) :
        "b" \in DOMAIN g => g["b"] = IntV(1)}}
RootTrees ==
  {DictV(f) : f \in MapsOver({"a"}, {IntV(1)} \cup InnerTrees)} \cup TreeLists

RuleValues ==
  {NoneV, IntV(0), IntV(1), IntV(2), ListV(<<IntV(1), IntV(2)>>), ListV(<<>>), XDict}
Prefixes == {<<>>, <<"a">>, <<"b">>, <<"a", "b">>}
Finals == {"", "a", "b", "c", "d"}
ReplaceSuffixes == {<<>>, <<":", "REPLACE">>, <<":", " ", "REPLACE", " ">>}
Suffixes ==
  ReplaceSuffixes \cup
  {<<":", a>> : a \in {"DEL", "DELETE", "DELETEIF", "APPEND", "EXTEND", "POP",
                       "REMOVE", "BADACTION"}}
RECURSIVE Dotted(_)
Dotted(q) == IF q = <<>> THEN <<>> ELSE <<Head(q), ".">> \o Dotted(Tail(q))
MkSelector(prefix, final, suffix) ==
  Dotted(prefix) \o (IF final = "" THEN <<>> ELSE <<final>>) \o suffix
Rules ==
  {[selector |-> MkSelector(p, f, x), value |-> v, prefix |-> p, final |-> f,
    suffix |-> x] : p \in Prefixes, f \in Finals, x \in Suffixes, v \in RuleValues}

(***************************************************************************)
(* The customization engine as a state machine: a tree is loaded, one rule *)
(* is applied to it.                                                       *)
(***************************************************************************)
InitCustomize ==
  /\ obj \in RootTrees
  /\ obj0 = obj
  /\ rule = NoRule
  /\ cerr = NoErr
  /\ mix = NoMix
  /\ pair = NoPair
  /\ imp = NoImp
  /\ find = NoFind /\ ct = NoCreate /\ bld = NoBuild /\ ld = NoLoad
  /\ pc = "ready"
  /\ typ = NoneV
  /\ typ0 = NoneV
  /\ data = NoneV
  /\ data0 = NoneV
  /\ err = NoErr

\* YamlConfigBuilder.applyCustomizationRule(obj, selector, value)
ApplyRule ==
  /\ pc = "ready"
  /\ \E ru \in Rules :
       LET r == ApplyCustomizationRule(obj, ru.selector, ru.value)
       IN /\ rule' = ru
          /\ cerr' = r.err
          /\ obj' = r.obj
  /\ obj0' = obj
  /\ pc' = "applied"
  /\ UNCHANGED <<typ, typ0, data, data0, err, mix, pair, imp, find, ct, bld, ld>>

NextCustomize == ApplyRule

SpecCustomize == InitCustomize /\ [][NextCustomize]_vars

(***************************************************************************)
(* Properties of the customization engine.                                 *)
(***************************************************************************)
\* the rule's action is REPLACE, spelled out or by default
IsReplace == rule.suffix \in ReplaceSuffixes

\* every key of path indexes a mapping, from the mapping o on
RECURSIVE TraverseOK(_, _)
TraverseOK(o, path) ==
  /\ o.k = "dict"
  /\ path # <<>> =>
       /\ Head(path) \in DOMAIN o.d
       /\ TraverseOK(o.d[Head(path)], Tail(path))

\* the mapping that path leads to
RECURSIVE Reached(_, _)
Reached(o, path) == IF path = <<>> THEN o ELSE Reached(o.d[Head(path)], Tail(path))

\* the tree o with the key kk of the mapping at path set to x
RECURSIVE WithPath(_, _, _, _)
WithPath(o, path, kk, x) ==
  IF path = <<>> THEN DictV([y \in DOMAIN o.d \cup {kk} |-> IF y = kk THEN x ELSE o.d[y]])
  ELSE DictV([y \in DOMAIN o.d |->
                IF y = Head(path) THEN WithPath(o.d[y], Tail(path), kk, x) ELSE o.d[y]])

ReplaceCase ==
  /\ pc = "applied" /\ IsReplace /\ rule.final # ""
  /\ TraverseOK(obj0, rule.prefix)

\* C9: REPLACE with a non-empty final segment k, after a successful traversal
\* to the mapping m, succeeds and sets m[k] to the rule's value, creating k or
\* overwriting a value of any kind, and changes nothing else in the tree.
C9_ReplaceSetsKey ==
  ReplaceCase =>
     /\ cerr.kind = "ok"
     /\ TraverseOK(obj, rule.prefix)
     /\ rule.final \in DOMAIN Reached(obj, rule.prefix).d
     /\ Reached(obj, rule.prefix).d[rule.final] = rule.value
     /\ obj = WithPath(obj0, rule.prefix, rule.final, rule.value)

C9_Witness ==
  /\ ReplaceCase
  /\ rule.prefix = <<"a">>
  /\ rule.final \notin DOMAIN Reached(obj0, rule.prefix).d
  /\ rule.value.k = "list"
  /\ obj # obj0

\* REPLACE at "a.c" with a mapping value while a.c holds a sequence
ListToDictCase ==
  /\ pc = "applied" /\ IsReplace
  /\ rule.prefix = <<"a">> /\ rule.final = "c"
  /\ rule.value.k = "dict"
  /\ TraverseOK(obj0, <<"a">>)
  /\ "c" \in DOMAIN obj0.d["a"].d
  /\ obj0.d["a"].d["c"].k = "list"

\* C10 (as stated): REPLACE at "a.c" with a mapping value, a.c holding a
\* sequence, fails with "can only replace list by other list".
C10_Original ==
  ListToDictCase =>
     /\ cerr.kind = "CustomizationError"
     /\ cerr.msg = "can only replace list by other list"

\* C10 (amended): REPLACE at "a.c" with a mapping value, a.c holding a
\* sequence, succeeds and leaves the mapping at a.c; the error "can only
\* replace list by other list" is raised only by a REPLACE with an empty
\* selector on a target that is itself a sequence, with a value that is not.
C10_ReplaceListByDict ==
  /\ ListToDictCase =>
       /\ cerr.kind = "ok"
       /\ obj.d["a"].d["c"] = rule.value
       /\ obj = WithPath(obj0, <<"a">>, "c", rule.value)
  /\ (pc = "applied" /\ cerr.msg = "can only replace list by other list") =>
       /\ IsReplace /\ rule.final = "" /\ rule.prefix = <<>>
       /\ obj0.k = "list" /\ rule.value.k # "list"
       /\ obj = obj0

C10_Witness ==
  /\ ListToDictCase
  /\ Len(obj0.d["a"].d["c"].l) = 3
  /\ obj.d["a"].d["c"] = XDict

\* the rule reaches its target: no traversal, or one through mappings only
Traversed(o, path) == path = <<>> \/ TraverseOK(o, path)

\* the tree o with the object that path leads to replaced by x
RECURSIVE ReplaceAt(_, _, _)
ReplaceAt(o, path, x) ==
  IF path = <<>> THEN x
  ELSE DictV([y \in DOMAIN o.d |->
                IF y = Head(path) THEN ReplaceAt(o.d[y], Tail(path), x) ELSE o.d[y]])

\* REPLACE with an empty selector on a target that is a sequence or a mapping
WholeCase ==
  /\ pc = "applied" /\ IsReplace /\ rule.final = ""
  /\ Traversed(obj0, rule.prefix)
  /\ Reached(obj0, rule.prefix).k \in {"list", "dict"}

\* C11: REPLACE with an empty selector and a value of the target's kind leaves
\* the target equal to the value, in place; with a value of another kind it
\* fails with a CustomizationError and the target is unchanged.
C11_ReplaceWhole ==
  WholeCase =>
     IF Reached(obj0, rule.prefix).k = rule.value.k
     THEN /\ cerr.kind = "ok"
          /\ Traversed(obj, rule.prefix)
          /\ Reached(obj, rule.prefix) = rule.value
          /\ obj = ReplaceAt(obj0, rule.prefix, rule.value)
     ELSE /\ cerr.kind = "CustomizationError"
          /\ cerr.msg \in {"can only replace list by other list",
                           "can only replace dict by other dict"}
          /\ obj = obj0

C11_Witness ==
  /\ WholeCase
  /\ rule.prefix = <<"a">>
  /\ rule.value = XDict
  /\ DOMAIN Reached(obj0, rule.prefix).d = {"b", "c"}
  /\ obj.d["a"] = XDict

\* the action of the rule applied
RuleAction == IF IsReplace THEN "REPLACE" ELSE rule.suffix[2]

\* a rule whose final segment is not a key of the mapping the traversal reached
AbsentCase ==
  /\ pc = "applied" /\ rule.final # ""
  /\ TraverseOK(obj0, rule.prefix)
  /\ rule.final \notin DOMAIN Reached(obj0, rule.prefix).d

IsMissingKeyError ==
  /\ cerr.kind = "CustomizationError"
  /\ cerr.msg = "wants to modify non-existing key"
  /\ cerr.arg = StrV(rule.final)

\* C12 (as stated): on an absent final key every action but REPLACE and
\* DELETEIF fails with "wants to modify non-existing key" before any mutation,
\* and DELETEIF succeeds as a no-op.
C12_Original ==
  AbsentCase =>
     /\ RuleAction \notin {"REPLACE", "DELETEIF"} => (IsMissingKeyError /\ obj = obj0)
     /\ RuleAction = "DELETEIF" => (cerr.kind = "ok" /\ obj = obj0)

\* C12 (amended): on an absent final key every action but REPLACE and DELETEIF
\* fails with "wants to modify non-existing key" before any mutation; DELETEIF
\* leaves the tree unchanged, succeeding when the rule's value is null and
\* failing with the "value is ignored" CustomizationError when it is not.
C12_AbsentKey ==
  AbsentCase =>
     /\ RuleAction \notin {"REPLACE", "DELETEIF"} => (IsMissingKeyError /\ obj = obj0)
     /\ RuleAction = "DELETEIF" =>
          /\ obj = obj0
          /\ IF rule.value = NoneV THEN cerr.kind = "ok"
             ELSE /\ cerr.kind = "CustomizationError"
                  /\ cerr.msg = "value is ignored because it is a delete"

C12_Witness ==
  /\ AbsentCase
  /\ RuleAction = "DELETEIF"
  /\ rule.prefix = <<"a">>
  /\ rule.value = IntV(1)
  /\ cerr.kind = "CustomizationError"

\* DEL or DELETE with a non-empty final segment and a null value
DeleteCase ==
  /\ pc = "applied" /\ RuleAction \in {"DEL", "DELETE"}
  /\ rule.final # "" /\ rule.value = NoneV
  /\ TraverseOK(obj0, rule.prefix)

\* the tree o without the key kk of the mapping that path leads to
WithoutKey(o, path, kk) == ReplaceAt(o, path, DictV(DelKey(Reached(o, path).d, kk)))

\* C13 (as stated): DEL/DELETE with a null value removes the key if present
\* and raises no error if it is absent; the key is absent afterwards and all
\* other keys are unchanged.
C13_Original ==
  DeleteCase =>
     /\ cerr.kind = "ok"
     /\ obj = WithoutKey(obj0, rule.prefix, rule.final)

\* C13 (amended): DEL/DELETE with a null value removes the key if it is present
\* and fails with "wants to modify non-existing key" if it is absent; in both
\* cases the key is absent afterwards and all other keys are unchanged.
C13_DeleteKey ==
  DeleteCase =>
     /\ IF rule.final \in DOMAIN Reached(obj0, rule.prefix).d
        THEN cerr.kind = "ok" ELSE IsMissingKeyError
     /\ TraverseOK(obj, rule.prefix)
     /\ rule.final \notin DOMAIN Reached(obj, rule.prefix).d
     /\ obj = WithoutKey(obj0, rule.prefix, rule.final)

C13_Witness ==
  /\ DeleteCase
  /\ rule.prefix = <<"a">> /\ rule.final = "c"
  /\ DOMAIN obj0.d["a"].d = {"b", "c"}
  /\ DOMAIN obj.d["a"].d = {"b"}
  /\ cerr.kind = "ok"

\* a list action on a final key that holds a sequence
ListCase ==
  /\ pc = "applied" /\ RuleAction \in {"APPEND", "EXTEND", "POP", "REMOVE"}
  /\ rule.final # ""
  /\ TraverseOK(obj0, rule.prefix)
  /\ rule.final \in DOMAIN Reached(obj0, rule.prefix).d
  /\ Reached(obj0, rule.prefix).d[rule.final].k = "list"

\* the sequence s without its element at position i (from 1)
DropAt(s, i) == [j \in 1..(Len(s) - 1) |-> IF j < i THEN s[j] ELSE s[j + 1]]
\* the position of the first element of s equal to x
FirstAt(s, x) ==
  CHOOSE i \in DOMAIN s : PyEq(s[i], x) /\ \A j \in 1..(i - 1) : ~PyEq(s[j], x)
\* the first occurrence of each element of vs, in turn, is in s
RECURSIVE Removable(_, _)
Removable(s, vs) ==
  vs # <<>> =>
     /\ PyInSeq(Head(vs), s)
     /\ Removable(DropAt(s, FirstAt(s, Head(vs))), Tail(vs))
\* s with the first occurrence of each element of vs removed in turn
RECURSIVE DropEach(_, _)
DropEach(s, vs) ==
  IF vs = <<>> THEN s ELSE DropEach(DropAt(s, FirstAt(s, Head(vs))), Tail(vs))

\* the elements REMOVE takes out: those of a sequence value, or the value
Removed == IF rule.value.k = "list" THEN rule.value.l ELSE <<rule.value>>

\* the action applies to the sequence s
Applicable(s) ==
  CASE RuleAction = "APPEND" -> TRUE
    [] RuleAction = "EXTEND" -> rule.value.k = "list"
    [] RuleAction = "POP" ->
         rule.value.k = "int" /\ rule.value.i >= 0 /\ rule.value.i < Len(s)
    [] OTHER -> Removable(s, Removed)

\* the sequence the action leaves
Expected(s) ==
  CASE RuleAction = "APPEND" -> s \o <<rule.value>>
    [] RuleAction = "EXTEND" -> s \o rule.value.l
    [] RuleAction = "POP" -> DropAt(s, rule.value.i + 1)
    [] OTHER -> DropEach(s, Removed)

\* C14: on a final key that holds a sequence s, APPEND v leaves s followed by
\* v, EXTEND v leaves s followed by the elements of v, POP i leaves s without
\* its element at index i, REMOVE v leaves s without the first occurrence of v
\* (of each element of v in turn when v is a sequence); the order of the
\* other elements is kept and nothing else in the tree changes.
C14_ListActions ==
  (ListCase /\ Applicable(Reached(obj0, rule.prefix).d[rule.final].l)) =>
     /\ cerr.kind = "ok"
     /\ obj = WithPath(obj0, rule.prefix, rule.final,
                       ListV(Expected(Reached(obj0, rule.prefix).d[rule.final].l)))

C14_Witness ==
  /\ ListCase
  /\ RuleAction = "REMOVE"
  /\ rule.value = ListV(<<IntV(1), IntV(2)>>)
  /\ obj0.d["a"].d["c"] = ListV(<<IntV(2), IntV(1), IntV(2)>>)
  /\ obj.d["a"].d["c"] = ListV(<<IntV(2)>>)
  /\ cerr.kind = "ok"

\* the sequence a list action is aimed at
TargetSeq == Reached(obj0, rule.prefix).d[rule.final].l

\* APPEND or EXTEND on a key that is present and does not hold a sequence
NotASequenceCase ==
  /\ pc = "applied" /\ RuleAction \in {"APPEND", "EXTEND"}
  /\ rule.final # ""
  /\ TraverseOK(obj0, rule.prefix)
  /\ rule.final \in DOMAIN Reached(obj0, rule.prefix).d
  /\ Reached(obj0, rule.prefix).d[rule.final].k # "list"

\* C15: every malformed or inapplicable rule fails with a CustomizationError
\* and no other error kind: a bad traversal, an unsupported action, an
\* empty-selector REPLACE of mismatched kind, a POP with an index that does
\* not exist, a REMOVE of an element that is not in the sequence, APPEND or
\* EXTEND on a key whose value is not a sequence.
C15_Original ==
  pc = "applied" =>
     /\ cerr.kind \in {"ok", "CustomizationError"}
     /\ (ListCase /\ RuleAction = "POP" /\ rule.value.k = "int"
           /\ rule.value.i >= Len(TargetSeq)) => cerr.kind = "CustomizationError"
     /\ (ListCase /\ RuleAction = "REMOVE" /\ ~Removable(TargetSeq, Removed))
           => cerr.kind = "CustomizationError"
     /\ NotASequenceCase => cerr.kind = "CustomizationError"

(***************************************************************************)
(* YamlConfigBuilder.mixCustomizations.  A customization file is its list  *)
(* of imports (empty when it has none) and its block of rules for the      *)
(* target file, in the order the file declares them (empty when the file   *)
(* has no block, a null block or an empty one).  mix.stack holds one frame *)
(* per active call of mixCustomizations; mix.log lists the calls of        *)
(* doCustomization made so far.                                            *)
(***************************************************************************)
DELETE_ALL_ACTION == <<":", "DELETE">>

MixRule(selector, value) == [selector |-> selector, value |-> value]
CustomFile(imports, block) == [imports |-> imports, block |-> block]
Frame(todo, cur, phase, pending) ==
  [todo |-> todo, cur |-> cur, phase |-> phase, pending |-> pending]
LogEntry(f, ru) == [file |-> f, selector |-> ru.selector]

\* DELETE_ALL_ACTION in custom[fn]
HasSentinel(block) == \E i \in DOMAIN block : block[i].selector = DELETE_ALL_ACTION
\* custom[fn][DELETE_ALL_ACTION]
Sentinel(block) ==
  block[CHOOSE i \in DOMAIN block : block[i].selector = DELETE_ALL_ACTION]
\* the rules the loop does not skip, in the order the file declares them
Others(block) == SelectSeq(block, LAMBDA ru : ru.selector # DELETE_ALL_ACTION)
\* the orders custom[fn].iteritems() may yield them in: a dict is not ordered
ItemOrders(block) ==
  LET q == Others(block)
  IN {[i \in DOMAIN q |-> q[p[i]]] : p \in Perms(DOMAIN q)}

\* a variant of ImportCustoms that lists the imports last to first
ImportCustoms_Reversed(imports) ==
  [i \in DOMAIN imports |-> imports[Len(imports) + 1 - i]]

\* import_customs: the imports of the file, in the order the file lists them
ImportCustoms(imports) == imports

\* doCustomization: a CustomizationError is raised again with the names of the
\* files, any other error as it is
DoCustomization(o, ru) ==
  LET r == ApplyCustomizationRule(o, ru.selector, ru.value)
  IN IF r.err.kind = "CustomizationError"
     THEN Outcome([r.err EXCEPT !.path = <<StrV("Applying")>>], r.obj)
     ELSE r

\* the customization files of the model: f1 may import f2 and f3, f2 may
\* import f3; every rule of file number n carries the value n
FileIds == <<"f1", "f2", "f3">>
FileNum(f) == CHOOSE n \in DOMAIN FileIds : FileIds[n] = f
RA(n) == MixRule(<<"a">>, IntV(n))
RB(n) == MixRule(<<"b">>, IntV(n))
RDelA == MixRule(<<"a", ":", "DEL">>, NoneV)
RDelAll == MixRule(DELETE_ALL_ACTION, NoneV)
RDelIfA == MixRule(<<"a", ":", "DELETEIF">>, NoneV)
BlocksOf(n) ==
  {<<>>, <<RA(n)>>, <<RA(n), RDelAll>>, <<RA(n), RB(n)>>,
   <<RB(n), RDelAll, RA(n)>>, <<RDelA>>, <<RDelA, RB(n)>>,
   <<RDelAll, RA(n), RDelIfA>>}
ImportsOf(f) ==
  CASE f = "f1" -> {<<>>, <<"f2">>, <<"f3">>, <<"f2", "f3">>, <<"f3", "f2">>}
    [] f = "f2" -> {<<>>, <<"f3">>}
    [] OTHER -> {<<>>}
FilesOf(f) ==
  {CustomFile(i, b) : i \in ImportsOf(f), b \in BlocksOf(FileNum(f))}
FileSystems ==
  {[f \in Range(FileIds) |->
      CASE f = "f1" -> c1 [] f = "f2" -> c2 [] OTHER -> c3] :
     c1 \in FilesOf("f1"), c2 \in FilesOf("f2"), c3 \in FilesOf("f3")}
Customizations == {<<"f1">>, <<"f1", "f2">>, <<"f2", "f1">>}
MixTrees == {DictV([x \in {"a"} |-> IntV(0)])}

(***************************************************************************)
(* mixCustomizations as a state machine: one step per iteration of the     *)
(* loop over the customization files, per recursive call and return, and   *)
(* per call of doCustomization.                                            *)
(***************************************************************************)
InitMix ==
  /\ pc = "mix"
  /\ \E fs \in FileSystems, cs \in Customizations :
       mix = [files |-> fs, customizations |-> cs,
              stack |-> <<Frame(cs, "", "next", <<>>)>>, log |-> <<>>, st |-> "run"]
  /\ obj \in MixTrees
  /\ obj0 = obj
  /\ rule = NoRule
  /\ cerr = NoErr
  /\ typ = NoneV
  /\ typ0 = NoneV
  /\ data = NoneV
  /\ data0 = NoneV
  /\ err = NoErr
  /\ pair = NoPair
  /\ imp = NoImp
  /\ find = NoFind /\ ct = NoCreate /\ bld = NoBuild /\ ld = NoLoad

Top == mix.stack[Len(mix.stack)]
SetTop(fr) == [mix.stack EXCEPT ![Len(mix.stack)] = fr]
MixFrame == UNCHANGED <<pc, typ, typ0, data, data0, err, obj0, rule, pair, imp, find, ct, bld, ld>>

\* for customization in customizations: the file is loaded
MixLoad ==
  /\ pc = "mix" /\ mix.st = "run"
  /\ Top.phase = "next" /\ Top.todo # <<>>
  /\ mix' = [mix EXCEPT !.stack =
               SetTop(Frame(Tail(Top.todo), Head(Top.todo), "imports", <<>>))]
  /\ UNCHANGED <<obj, cerr>>
  /\ MixFrame

\* if "imports" in custom: self.mixCustomizations(fn, import_customs)
MixImports ==
  /\ pc = "mix" /\ mix.st = "run"
  /\ Top.phase = "imports"
  /\ LET imports == ImportCustoms(mix.files[Top.cur].imports)
         here == SetTop([Top EXCEPT !.phase = "block"])
     IN mix' = [mix EXCEPT !.stack =
                  IF imports = <<>> THEN here
                  ELSE Append(here, Frame(imports, "", "next", <<>>))]
  /\ UNCHANGED <<obj, cerr>>
  /\ MixFrame

\* the loop over the files is over: the call returns
MixReturn ==
  /\ pc = "mix" /\ mix.st = "run"
  /\ Top.phase = "next" /\ Top.todo = <<>>
  /\ mix' = IF Len(mix.stack) = 1 THEN [mix EXCEPT !.st = "done"]
            ELSE [mix EXCEPT !.stack = SubSeq(mix.stack, 1, Len(mix.stack) - 1)]
  /\ UNCHANGED <<obj, cerr>>
  /\ MixFrame

\* the block of the file: DELETE_ALL first if it is there, then the loop over
\* custom[fn].iteritems() starts
MixBlock ==
  /\ pc = "mix" /\ mix.st = "run"
  /\ Top.phase = "block"
  /\ LET block == mix.files[Top.cur].block
     IN \E pending \in ItemOrders(block) :
          IF HasSentinel(block)
          THEN LET r == DoCustomization(obj, Sentinel(block))
               IN /\ obj' = r.obj
                  /\ cerr' = r.err
                  /\ mix' = [mix EXCEPT
                       !.log = Append(@, LogEntry(Top.cur, Sentinel(block))),
                       !.st = IF r.err.kind = "ok" THEN "run" ELSE "failed",
                       !.stack = SetTop([Top EXCEPT !.phase = "rules",
                                                    !.pending = pending])]
          ELSE /\ mix' = [mix EXCEPT !.stack =
                            SetTop([Top EXCEPT !.phase = "rules", !.pending = pending])]
               /\ UNCHANGED <<obj, cerr>>
  /\ MixFrame

\* one iteration of the loop over the rules of the block
MixApply ==
  /\ pc = "mix" /\ mix.st = "run"
  /\ Top.phase = "rules" /\ Top.pending # <<>>
  /\ LET r == DoCustomization(obj, Head(Top.pending))
     IN /\ obj' = r.obj
        /\ cerr' = r.err
        /\ mix' = [mix EXCEPT
             !.log = Append(@, LogEntry(Top.cur, Head(Top.pending))),
             !.st = IF r.err.kind = "ok" THEN "run" ELSE "failed",
             !.stack = SetTop([Top EXCEPT !.pending = Tail(@)])]
  /\ MixFrame

\* the rules of the block are done: on to the next file
MixBlockDone ==
  /\ pc = "mix" /\ mix.st = "run"
  /\ Top.phase = "rules" /\ Top.pending = <<>>
  /\ mix' = [mix EXCEPT !.stack = SetTop(Frame(Top.todo, "", "next", <<>>))]
  /\ UNCHANGED <<obj, cerr>>
  /\ MixFrame

NextMix ==
  \/ MixLoad \/ MixImports \/ MixReturn \/ MixBlock \/ MixApply \/ MixBlockDone

SpecMix == InitMix /\ [][NextMix]_vars

(***************************************************************************)
(* Properties of mixCustomizations.                                        *)
(***************************************************************************)
IsPrefix(a, b) == Len(a) <= Len(b) /\ SubSeq(b, 1, Len(a)) = a

\* the rules of a block with DELETE_ALL moved to the front, the others in the
\* order the file declares them
Declared(block) ==
  (IF HasSentinel(block) THEN <<Sentinel(block)>> ELSE <<>>) \o Others(block)

\* the calls of doCustomization the files cs ask for: per file, depth-first,
\* those of its imports and then those of its own block
RECURSIVE DeclaredLog(_, _)
DeclaredLog(fs, cs) ==
  IF cs = <<>> THEN <<>>
  ELSE LET f == Head(cs)
           own == Declared(fs[f].block)
       IN DeclaredLog(fs, fs[f].imports)
            \o [i \in DOMAIN own |-> LogEntry(f, own[i])]
            \o DeclaredLog(fs, Tail(cs))

\* the log so far agrees with the sequence want: all of it once the mixing
\* is done, a prefix of it before and after a failure
Follows(log, want) == IF mix.st = "done" THEN log = want ELSE IsPrefix(log, want)

\* C16: within the block of one file, ":DELETE" is applied exactly once and
\* before every other rule of the block, and the other rules are then each
\* applied exactly once in the order the file declares them.
C16_Original ==
  pc = "mix" => Follows(mix.log, DeclaredLog(mix.files, mix.customizations))

FileSeq(log) == [i \in DOMAIN log |-> log[i].file]

\* the block of the file of the top frame has just been applied in full
BlockApplied ==
  /\ pc = "mix" /\ mix.st = "run"
  /\ Top.phase = "rules" /\ Top.pending = <<>>

C17_Witness ==
  /\ BlockApplied
  /\ Top.cur = "f1" /\ Len(mix.stack) = 1
  /\ mix.files["f1"].imports = <<"f3", "f2">>
  /\ mix.files["f2"].imports = <<"f3">>
  /\ mix.files["f1"].block = <<RA(1)>>
  /\ FileSeq(mix.log) = <<"f3", "f3", "f2", "f1">>
  /\ obj.d["a"] = IntV(1)

\* C17: the files are processed in the order of the list, the rules of the
\* files a file imports (in import order, depth-first) before any rule of the
\* file's own block, whether or not the importing file has a block; hence,
\* once a file's block is applied, its rule (when the block has no other rule
\* for the same key) has overridden the rules for the same selector of the
\* files it imports.
C17_ImportsFirst ==
  pc = "mix" =>
     /\ Follows(FileSeq(mix.log),
                FileSeq(DeclaredLog(mix.files, mix.customizations)))
     /\ (BlockApplied
           /\ (\E i \in DOMAIN mix.files[Top.cur].block :
                 mix.files[Top.cur].block[i] = RA(FileNum(Top.cur)))
           /\ (\A j \in DOMAIN mix.files[Top.cur].block :
                 mix.files[Top.cur].block[j] # RDelIfA))
          => (obj.k = "dict" /\ "a" \in DOMAIN obj.d
              /\ obj.d["a"] = IntV(FileNum(Top.cur)))

(***************************************************************************)
(* Two customization rules applied one after the other to the same tree:   *)
(* two calls of applyCustomizationRule, the second made whatever the first *)
(* raised.                                                                 *)
(***************************************************************************)
PairLists == {IntV(1), ListV(<<IntV(1), IntV(2)>>)}
PairTrees ==
  {DictV([x \in {"a"} |-> DictV(f)]) : f \in MapsOver({"b", "c"}, PairLists)}
PairSuffixes ==
  {<<>>} \cup {<<":", a>> : a \in {"DEL", "DELETEIF", "APPEND", "POP", "REMOVE"}}
PairRules ==
  {[selector |-> MkSelector(p, f, x), value |-> v, prefix |-> p, final |-> f,
    suffix |-> x] :
     p \in {<<>>, <<"a">>}, f \in {"a", "b", "c"}, x \in PairSuffixes,
     v \in {NoneV, IntV(1), ListV(<<IntV(1), IntV(2)>>)}}

InitPair ==
  /\ pc = "pair0"
  /\ obj \in PairTrees
  /\ obj0 = obj
  /\ pair = NoPair
  /\ rule = NoRule
  /\ cerr = NoErr
  /\ mix = NoMix
  /\ imp = NoImp
  /\ find = NoFind /\ ct = NoCreate /\ bld = NoBuild /\ ld = NoLoad
  /\ typ = NoneV
  /\ typ0 = NoneV
  /\ data = NoneV
  /\ data0 = NoneV
  /\ err = NoErr

\* applyCustomizationRule(obj, selector, value), the first call
ApplyFirst ==
  /\ pc = "pair0"
  /\ \E ru \in PairRules :
       LET r == ApplyCustomizationRule(obj, ru.selector, ru.value)
       IN /\ obj' = r.obj
          /\ cerr' = r.err
          /\ pair' = [pair EXCEPT !.first = ru, !.cerr1 = r.err]
  /\ pc' = "pair1"
  /\ UNCHANGED <<typ, typ0, data, data0, err, obj0, rule, mix, imp, find, ct, bld, ld>>

\* applyCustomizationRule(obj, selector, value), the second call
ApplySecond ==
  /\ pc = "pair1"
  /\ \E ru \in PairRules :
       LET r == ApplyCustomizationRule(obj, ru.selector, ru.value)
       IN /\ obj' = r.obj
          /\ cerr' = r.err
          /\ pair' = [pair EXCEPT !.second = ru, !.cerr2 = r.err]
  /\ pc' = "pair2"
  /\ UNCHANGED <<typ, typ0, data, data0, err, obj0, rule, mix, imp, find, ct, bld, ld>>

NextPair == ApplyFirst \/ ApplySecond

SpecPair == InitPair /\ [][NextPair]_vars

(***************************************************************************)
(* Properties of pairs of rules.                                           *)
(***************************************************************************)
\* the dot-path a rule addresses
RulePath(ru) == ru.prefix \o <<ru.final>>
Disjoint(ra, rb) ==
  ~IsPrefix(RulePath(ra), RulePath(rb)) /\ ~IsPrefix(RulePath(rb), RulePath(ra))

\* the same outcome: success, or the same kind of failure
SameOutcome(e1, e2) == e1.kind = e2.kind /\ e1.msg = e2.msg

\* the two rules applied to the first tree in the other order
SecondAlone == ApplyCustomizationRule(obj0, pair.second.selector, pair.second.value)
Swapped ==
  ApplyCustomizationRule(SecondAlone.obj, pair.first.selector, pair.first.value)

\* both rules are a REPLACE of the same selector, and the selector is reached
SameReplace ==
  /\ pc = "pair2"
  /\ pair.first.suffix = <<>> /\ pair.second.suffix = <<>>
  /\ pair.first.selector = pair.second.selector
  /\ TraverseOK(obj0, pair.first.prefix)

\* C18: two rules with disjoint selectors give the same tree and the same
\* outcomes in either order; two REPLACE rules of the same selector leave the
\* value of the one applied last, so their order matters.
C18_DisjointCommute ==
  /\ (pc = "pair2" /\ Disjoint(pair.first, pair.second)) =>
       /\ obj = Swapped.obj
       /\ SameOutcome(pair.cerr1, Swapped.err)
       /\ SameOutcome(pair.cerr2, SecondAlone.err)
  /\ SameReplace =>
       /\ pair.cerr1.kind = "ok" /\ pair.cerr2.kind = "ok"
       /\ TraverseOK(obj, pair.second.prefix)
       /\ pair.second.final \in DOMAIN Reached(obj, pair.second.prefix).d
       /\ Reached(obj, pair.second.prefix).d[pair.second.final] = pair.second.value
       /\ pair.first.value # pair.second.value => obj # Swapped.obj

C18_Witness ==
  /\ pc = "pair2" /\ Disjoint(pair.first, pair.second)
  /\ pair.first.selector = <<"a", ".", "c", ":", "APPEND">>
  /\ pair.second.selector = <<"a", ".", "b", ":", "POP">>
  /\ pair.first.value = IntV(1) /\ pair.second.value = IntV(1)
  /\ pair.cerr1.kind = "ok" /\ pair.cerr2.kind = "ok"
  /\ obj.d["a"].d["c"] = ListV(<<IntV(1), IntV(2), IntV(1)>>)
  /\ obj.d["a"].d["b"] = ListV(<<IntV(1)>>)

(***************************************************************************)
(* YamlConfigBuilder.importTypes.  A declaration is a name and the node    *)
(* that declares it; of the node the model keeps what createType does with *)
(* it: a built-in kind, a reference to a named type, a list of a named     *)
(* type, a dict node without kids (a YamlError whatever the registry), or  *)
(* a node that is a string or a list holding "type" (spec["type"] raises   *)
(* TypeError).  self.types is a function from names to compiled types.     *)
(***************************************************************************)
TypeSpec(t, ref) == [t |-> t, ref |-> ref]
Declaration(name, spec) == [name |-> name, spec |-> spec]
Created(e, val) == [err |-> e, val |-> val]

\* createType(path, name, spec) against the registry types
CreateType(types, name, spec) ==
  CASE spec.t = "string-node" ->
         Created(PyError("TypeError", "string indices must be integers"), NoneV)
    [] spec.t = "builtin" ->
         Created(NoErr, ScalarT(name, spec.ref, <<>>, NoneV, NoneV, NoneV, NoneV))
    [] spec.t = "dict-no-kids" ->
         Created(YamlError(<<StrV(name)>>, NoneV, "dict type has no 'kids'",
                           StrV(name), <<>>), NoneV)
    [] spec.ref \notin DOMAIN types ->
         Created(YamlError(<<StrV(name)>>, NoneV, "unknown type", StrV(name), <<>>),
                 NoneV)
    [] spec.t = "listof" ->
         Created(NoErr, ContainerT("List", name, "list", types[spec.ref], NoneV,
                                   NoneV, NoneV, NoneV, NoneV))
    [] OTHER -> Created(NoErr, types[spec.ref])

\* the state of the loop
Loop(types, queue, problematics, attempts, st, raised) ==
  [types |-> types, queue |-> queue, problematics |-> problematics,
   attempts |-> attempts, st |-> st, raised |-> raised]

\* the loop goes on: while types_to_import and
\* len(problematics) != len(types_to_import)
LoopGoesOn(l) ==
  l.st = "run" /\ l.queue # <<>> /\ Len(l.problematics) # Len(l.queue)

\* a variant of LoopIteration that keeps the failures across a success
LoopIteration_KeepFailures(l) ==
  LET d == Head(l.queue)
      r == CreateType(l.types, d.name, d.spec)
  IN IF r.err.kind = "ok"
     THEN Loop(SetKey(l.types, d.name, r.val), Tail(l.queue), l.problematics,
               l.attempts + 1, "run", NoErr)
     ELSE IF r.err.kind = "TypeError"
     THEN Loop(l.types, Tail(l.queue), l.problematics, l.attempts + 1, "raised", r.err)
     ELSE Loop(l.types, Append(Tail(l.queue), d), Append(l.problematics, r.err),
               l.attempts + 1, "run", NoErr)

\* one iteration: the first declaration of the queue is compiled; a success
\* registers it and forgets the failures, a TypeError is raised at once, any
\* other failure sends the declaration to the end of the queue
LoopIteration(l) ==
  LET d == Head(l.queue)
      r == CreateType(l.types, d.name, d.spec)
  IN IF r.err.kind = "ok"
     THEN Loop(SetKey(l.types, d.name, r.val), Tail(l.queue), <<>>,
               l.attempts + 1, "run", NoErr)
     ELSE IF r.err.kind = "TypeError"
     THEN Loop(l.types, Tail(l.queue), l.problematics, l.attempts + 1, "raised", r.err)
     ELSE Loop(l.types, Append(Tail(l.queue), d), Append(l.problematics, r.err),
               l.attempts + 1, "run", NoErr)

\* after the loop: if problematics: raise problematics[0]
LoopExit(l) ==
  IF l.problematics # <<>>
  THEN [l EXCEPT !.st = "failed", !.raised = l.problematics[1]]
  ELSE [l EXCEPT !.st = "done"]

\* the whole loop, from the state l on
RECURSIVE ImportLoop(_)
ImportLoop(l) ==
  IF l.st # "run" THEN l
  ELSE IF LoopGoesOn(l) THEN ImportLoop(LoopIteration(l))
  ELSE LoopExit(l)

\* the names a types file declares, and the nodes that declare them
TypeNames == {"t", "u", "v"}
TypeSpecs ==
  {TypeSpec("builtin", kd) : kd \in {"str", "int"}}
    \cup {TypeSpec(t, n) : t \in {"named", "listof"}, n \in TypeNames}
    \cup {TypeSpec("dict-no-kids", ""), TypeSpec("string-node", "")}
\* the mapping _yamlLoad(fn) returns: a dict from names to nodes
Batches == MapsOver(TypeNames, TypeSpecs)
\* self.types before the call: empty, or holding a type named "t"
Registries == {EmptyMap, [n \in {"t"} |-> Plain("t", "str")]}

InitImport ==
  /\ pc = "import"
  /\ \E ex \in BOOLEAN, b \in Batches, r \in Registries :
       /\ ex \/ b = EmptyMap
       /\ imp = [exists |-> ex, batch |-> b, types0 |-> r,
                 l |-> Loop(r, <<>>, <<>>, 0, "load", NoErr)]
  /\ typ = NoneV /\ typ0 = NoneV /\ data = NoneV /\ data0 = NoneV
  /\ err = NoErr /\ obj = NoneV /\ obj0 = NoneV
  /\ rule = NoRule /\ cerr = NoErr
  /\ mix = NoMix /\ pair = NoPair
  /\ find = NoFind /\ ct = NoCreate /\ bld = NoBuild /\ ld = NoLoad

ImportFrame ==
  UNCHANGED <<pc, typ, typ0, data, data0, err, obj, obj0, rule, cerr, mix, pair,
              find, ct, bld, ld>>

\* if os.path.exists(fn): types_to_import = list(self._yamlLoad(fn).items());
\* a dict yields its items in no particular order
ImportLoad ==
  /\ pc = "import" /\ imp.l.st = "load"
  /\ IF imp.exists
     THEN \E p \in Perms(DOMAIN imp.batch) :
            imp' = [imp EXCEPT
                      !.l.queue = [i \in DOMAIN p |-> Declaration(p[i], imp.batch[p[i]])],
                      !.l.st = "run"]
     ELSE imp' = [imp EXCEPT !.l.st = "done"]
  /\ ImportFrame

ImportIterate ==
  /\ pc = "import" /\ LoopGoesOn(imp.l)
  /\ imp' = [imp EXCEPT !.l = LoopIteration(imp.l)]
  /\ ImportFrame

ImportExit ==
  /\ pc = "import" /\ imp.l.st = "run" /\ ~LoopGoesOn(imp.l)
  /\ imp' = [imp EXCEPT !.l = LoopExit(imp.l)]
  /\ ImportFrame

NextImport == ImportLoad \/ ImportIterate \/ ImportExit
SpecImport == InitImport /\ [][NextImport]_vars

\* the named type a declaration refers to, if it refers to one
Refers(spec) == spec.t \in {"named", "listof"}
\* every declaration of b is a built-in type or refers to a name that r
\* registers or b declares
Resolved(b, r) ==
  \A n \in DOMAIN b :
    \/ b[n].t = "builtin"
    \/ Refers(b[n]) /\ b[n].ref \in DOMAIN r \cup DOMAIN b
\* the references between the declarations of b form no cycle
Acyclic(b) ==
  \E rank \in [DOMAIN b -> 1..Cardinality(TypeNames)] :
    \A n \in DOMAIN b :
      (Refers(b[n]) /\ b[n].ref \in DOMAIN b) => rank[b[n].ref] < rank[n]
\* the call has ended
Ended == imp.l.st \in {"done", "failed", "raised"}
\* the queue list(...items()) gives for the order p of the names of b
QueueOf(b, p) == [i \in DOMAIN p |-> Declaration(p[i], b[p[i]])]
\* the end of the call had the dict yielded the declarations in the order p
OutcomeOf(p) == ImportLoop(Loop(imp.types0, QueueOf(imp.batch, p), <<>>, 0, "run", NoErr))

\* C19: when every declaration of the batch refers only to names the
\* registry holds or the batch declares, without a cycle, importTypes
\* succeeds, registers every declared name and leaves the same registry
\* whatever the order of the declarations.
C19_Original ==
  (Ended /\ imp.exists /\ Resolved(imp.batch, imp.types0) /\ Acyclic(imp.batch)) =>
    /\ imp.l.st = "done"
    /\ DOMAIN imp.batch \subseteq DOMAIN imp.l.types
    /\ \A p \in Perms(DOMAIN imp.batch) : OutcomeOf(p).types = imp.l.types

\* the same, for the batches that declare no name the registry already holds
C19_FreshNames ==
  (Ended /\ imp.exists /\ Resolved(imp.batch, imp.types0) /\ Acyclic(imp.batch)
     /\ DOMAIN imp.batch \cap DOMAIN imp.types0 = {}) =>
    /\ imp.l.st = "done"
    /\ DOMAIN imp.batch \subseteq DOMAIN imp.l.types
    /\ \A p \in Perms(DOMAIN imp.batch) : OutcomeOf(p).types = imp.l.types

\* the loop runs to its end: nothing suspends it
SpecImportFair == SpecImport /\ WF_vars(NextImport)

\* the failure of the declaration d against the registry as it stands
FailureOf(d) == CreateType(imp.l.types, d.name, d.spec).err
\* the number of declarations of the batch
BatchSize == Cardinality(DOMAIN imp.batch)
\* at most n(n+1)/2 compilation attempts
AttemptBound == 2 * imp.l.attempts <= BatchSize * (BatchSize + 1)
\* problematics holds the failures of the last declarations of the queue,
\* in the order of the queue, and each of them still fails
PendingFailed ==
  LET k == Len(imp.l.queue) - Len(imp.l.problematics)
  IN /\ k >= 0
     /\ \A i \in DOMAIN imp.l.problematics :
          /\ imp.l.problematics[i].kind \notin {"ok", "TypeError"}
          /\ imp.l.problematics[i] = FailureOf(imp.l.queue[k + i])
\* the call ended with success: nothing is pending
StoppedEmpty == imp.l.st = "done" /\ imp.l.queue = <<>> /\ imp.l.problematics = <<>>
\* the call ended because every pending declaration has failed since the
\* last success; the first of the failures is raised
StoppedBlocked ==
  /\ imp.l.st = "failed"
  /\ imp.l.queue # <<>>
  /\ Len(imp.l.problematics) = Len(imp.l.queue)
  /\ PendingFailed
  /\ imp.l.raised = FailureOf(imp.l.queue[1])
\* the call ended because a compilation raised a TypeError
StoppedTypeError ==
  /\ imp.l.st = "raised"
  /\ imp.l.raised.kind = "TypeError"
  /\ \E n \in DOMAIN imp.batch :
       /\ \A i \in DOMAIN imp.l.queue : imp.l.queue[i].name # n
       /\ imp.l.raised = FailureOf(Declaration(n, imp.batch[n]))

\* the claim as stated: the call makes at most n(n+1)/2 attempts and ends
\* either with an empty queue or with every pending declaration failed
C20_Original ==
  /\ AttemptBound
  /\ Ended => (StoppedEmpty \/ StoppedBlocked)

\* while the loop runs, the failures recorded are those of the declarations
\* tried since the last success, and the loop has not yet tried them all
C20_Step ==
  /\ AttemptBound
  /\ imp.l.st = "run" => PendingFailed
  /\ Ended => (StoppedEmpty \/ StoppedBlocked \/ StoppedTypeError)

\* C20: importTypes always ends, after at most n(n+1)/2 compilation
\* attempts, in one of three ways: with an empty queue; as soon as every
\* pending declaration has failed since the last success, none of them
\* compiling against the registry as it stands, raising the first of these
\* failures; or at the first compilation that raises a TypeError.
C20_Terminates == []C20_Step /\ <>Ended

\* three declarations: two failures, a success, then both fail again
C20_Witness ==
  /\ StoppedBlocked
  /\ BatchSize = 3
  /\ imp.l.attempts = 5
  /\ Len(imp.l.queue) = 2
  /\ DOMAIN imp.l.types # DOMAIN imp.types0

\* C27: a rule that fails, whatever its action and value, leaves the tree
\* exactly as it was before the call.
C27_Original == (pc = "applied" /\ cerr.kind # "ok") => obj = obj0

\* the same, for every failing rule but a REMOVE of a sequence
C27_ButRemoveEach ==
  (pc = "applied" /\ cerr.kind # "ok"
     /\ ~(RuleAction = "REMOVE" /\ rule.value.k = "list")) => obj = obj0

\* the rules q applied in turn to the tree o, up to the first failure
RECURSIVE ApplyAll(_, _)
ApplyAll(o, q) ==
  IF q = <<>> THEN Outcome(NoErr, o)
  ELSE LET r == DoCustomization(o, Head(q))
       IN IF r.err.kind = "ok" THEN ApplyAll(r.obj, Tail(q)) ELSE r

\* the block of the file of the top frame holds ":DELETE" and has just been
\* applied in full
SentinelCase == BlockApplied /\ HasSentinel(mix.files[Top.cur].block)

\* C28: once a file whose block holds ":DELETE" has been processed, the tree
\* is what the other rules of the block, applied in the order the file
\* declares them, make of an empty mapping.
C28_Original ==
  SentinelCase =>
    LET r == ApplyAll(DictV(EmptyMap), Others(mix.files[Top.cur].block))
    IN r.err.kind = "ok" /\ obj = r.obj

\* the same, for some order of the other rules of the block
C28_SomeOrder ==
  SentinelCase =>
    \E q \in ItemOrders(mix.files[Top.cur].block) :
      LET r == ApplyAll(DictV(EmptyMap), q)
      IN r.err.kind = "ok" /\ obj = r.obj

(***************************************************************************)
(* findSpec(fn, yamltypes_dirs, exists).  A file name is a sequence of     *)
(* tokens, "." or a run of other characters; a path is a directory ("" for *)
(* none) and a file name.  os.path.join(d, n) is Path(d, n).               *)
(***************************************************************************)
Path(dir, name) == [dir |-> dir, name |-> name]
Found(p) == [found |-> TRUE, path |-> p]
NotFound == [found |-> FALSE, path |-> Path("", <<>>)]

\* the position of the last "." of the name n, 0 when it has none
LastDot(n) ==
  IF \E i \in DOMAIN n : n[i] = "."
  THEN CHOOSE i \in DOMAIN n : n[i] = "." /\ \A j \in (i + 1)..Len(n) : n[j] # "."
  ELSE 0
\* os.path.splitext(fn)[0]: the name up to its last dot, the whole name when
\* nothing but dots precedes that dot
SplitExt(n) ==
  IF LastDot(n) > 0 /\ \E j \in 1..(LastDot(n) - 1) : n[j] # "."
  THEN SubSeq(n, 1, LastDot(n) - 1)
  ELSE n
\* fn + ".meta.yaml"
MetaYaml(p) == Path(p.dir, p.name \o <<".", "meta", ".", "yaml">>)
\* findMetaYaml(fn)
FindMetaYaml(p, exists) == IF MetaYaml(p) \in exists THEN Found(MetaYaml(p)) ELSE NotFound

\* a variant of StripSegment that strips the last dot-segment
StripSegment_Last(n) == SubSeq(n, 1, LastDot(n) - 1)

\* basespecfn.split(".", 1)[1]: the name after its first dot
StripSegment(n) ==
  LET i == CHOOSE i \in DOMAIN n : n[i] = "." /\ \A j \in 1..(i - 1) : n[j] # "."
  IN SubSeq(n, i + 1, Len(n))

\* for yamltypes_dir in yamltypes_dirs, from the directory number i on
RECURSIVE FindInDirs(_, _, _, _)
FindInDirs(n, dirs, i, exists) ==
  IF i > Len(dirs) THEN NotFound
  ELSE LET r == FindMetaYaml(Path(dirs[i], n), exists)
       IN IF r.found THEN r ELSE FindInDirs(n, dirs, i + 1, exists)

\* while basespecfn: ...
RECURSIVE FindLoop(_, _, _)
FindLoop(n, dirs, exists) ==
  IF n = <<>> THEN NotFound
  ELSE LET r == FindInDirs(n, dirs, 1, exists)
       IN IF r.found THEN r
          ELSE IF \A i \in DOMAIN n : n[i] # "." THEN NotFound
          ELSE FindLoop(StripSegment(n), dirs, exists)

\* findSpec(fn, yamltypes_dirs, exists), fn the path p
FindSpec(p, dirs, exists) ==
  LET basespecfn == SplitExt(p.name)
      r == FindMetaYaml(Path(p.dir, basespecfn), exists)
  IN IF r.found THEN r ELSE FindLoop(basespecfn, dirs, exists)

\* the inputs: data files, search directories, and the files that exist
NameTokens == {"foo", "a", "."}
FileNames == {n \o <<".", "yaml">> : n \in SeqsUpTo(NameTokens, MaxLen)}
DataDirs == {"", "c"}
SearchDirs == {<<>>, <<"c">>, <<"d">>, <<"c", "d">>, <<"d", "c">>}
\* the names the search may look for: the ends of the name n
Ends(n) == {SubSeq(n, i, Len(n)) : i \in 1..(Len(n) + 1)}
SpecPaths(n) ==
  {MetaYaml(Path(d, e)) : d \in {"", "c", "d"}, e \in Ends(SplitExt(n))}
ExistSets(n) == {x \in SUBSET SpecPaths(n) : Cardinality(x) <= 2}

InitFind ==
  /\ pc = "find"
  /\ \E n \in FileNames, d \in DataDirs, dirs \in SearchDirs :
       \E x \in ExistSets(n) :
         find = [fn |-> Path(d, n), dirs |-> dirs, exists |-> x, st |-> "ready",
                 result |-> NotFound]
  /\ typ = NoneV /\ typ0 = NoneV /\ data = NoneV /\ data0 = NoneV
  /\ err = NoErr /\ obj = NoneV /\ obj0 = NoneV
  /\ rule = NoRule /\ cerr = NoErr
  /\ mix = NoMix /\ pair = NoPair /\ imp = NoImp
  /\ ct = NoCreate /\ bld = NoBuild /\ ld = NoLoad

FindSpecCall ==
  /\ pc = "find" /\ find.st = "ready"
  /\ find' = [find EXCEPT !.st = "done",
                          !.result = FindSpec(find.fn, find.dirs, find.exists)]
  /\ UNCHANGED <<pc, typ, typ0, data, data0, err, obj, obj0, rule, cerr, mix, pair,
                 imp, ct, bld, ld>>

NextFind == FindSpecCall
SpecFind == InitFind /\ [][NextFind]_vars

\* the name n after its first dot
AfterFirstDot(n) ==
  SubSeq(n, 1 + (CHOOSE i \in DOMAIN n : n[i] = "." /\ \A j \in 1..(i - 1) : n[j] # "."),
         Len(n))
HasDot(n) == \E i \in DOMAIN n : n[i] = "."
\* the candidate names: the name, then what is left each time one dot-segment
\* is stripped, until no dot remains
RECURSIVE Candidates(_)
Candidates(n) == IF HasDot(n) THEN <<n>> \o Candidates(AfterFirstDot(n)) ELSE <<n>>
\* the candidate names the search looks for: those before the first empty one
RECURSIVE Searched(_)
Searched(n) ==
  IF n = <<>> THEN <<>>
  ELSE IF HasDot(n) THEN <<n>> \o Searched(AfterFirstDot(n)) ELSE <<n>>
\* the paths <dir>/<candidate>.meta.yaml, candidate by candidate and, for
\* each, directory by directory
RECURSIVE InDirs(_, _)
InDirs(cands, dirs) ==
  IF cands = <<>> THEN <<>>
  ELSE [i \in DOMAIN dirs |-> MetaYaml(Path(dirs[i], Head(cands)))]
         \o InDirs(Tail(cands), dirs)
\* the companion file next to the data file
Companion == MetaYaml(Path(find.fn.dir, SplitExt(find.fn.name)))
\* the first path of the sequence order that exists, if any
FirstExisting(order) ==
  IF \E i \in DOMAIN order : order[i] \in find.exists
  THEN Found(order[CHOOSE i \in DOMAIN order :
                     order[i] \in find.exists
                       /\ \A j \in 1..(i - 1) : order[j] \notin find.exists])
  ELSE NotFound

\* the claim as stated: every candidate name, the last one included
C23_Original ==
  find.st = "done" =>
    find.result =
      FirstExisting(<<Companion>> \o InDirs(Candidates(SplitExt(find.fn.name)), find.dirs))

\* C23: findSpec returns the first existing path, and None when there is
\* none, among: the companion file next to the data file, then
\* <dir>/<candidate>.meta.yaml for each candidate name (the extension-less
\* base name, then what is left each time its first dot-segment is stripped,
\* up to the first name without a dot and stopping before an empty name) and,
\* for each candidate, each search directory in the listed order.
C23_FirstExisting ==
  find.st = "done" =>
    find.result =
      FirstExisting(<<Companion>> \o InDirs(Searched(SplitExt(find.fn.name)), find.dirs))

\* "foo.a.yaml" with the directories c and d, where only d/a.meta.yaml exists
C23_Witness ==
  /\ find.st = "done"
  /\ find.fn = Path("", <<"foo", ".", "a", ".", "yaml">>)
  /\ find.dirs = <<"c", "d">>
  /\ find.exists = {MetaYaml(Path("d", <<"a">>))}
  /\ find.result = Found(MetaYaml(Path("d", <<"a">>)))

(***************************************************************************)
(* The loaders of yamltypes.yaml: construct_mapping builds a mapping from  *)
(* the (key, value) pairs of a mapping node.  The four loaders share the   *)
(* code; the ordered ones build a _LastUpdatedOrderedDict, the others a    *)
(* plain dict; only the unsafe ones construct tuples.  The mapping under   *)
(* construction is the sequence of its items in insertion order.           *)
(***************************************************************************)
TupleV(s) == [k |-> "tuple", t |-> s]
Pair(key, value) == [key |-> key, value |-> value]
ConstructorError(msg, key) == [PyError("ConstructorError", msg) EXCEPT !.arg = key]

\* key in mapping
InMapping(key, mapping) == \E i \in DOMAIN mapping : PyEq(mapping[i].key, key)

\* raise ConstructorError(..., "found already in-use key (%s)" % key, ...):
\* a tuple key is taken as the arguments of the format
InUseError(key) ==
  IF key.k = "tuple"
  THEN IF Len(key.t) = 1
       THEN ConstructorError("found already in-use key", key.t[1])
       ELSE PyError("TypeError", "string formatting")
  ELSE ConstructorError("found already in-use key", key)

\* one iteration of the loop over node.value
ConstructPair(l) ==
  LET p == l.node[l.i]
  IN IF ~Hashable(p.key)
     THEN [l EXCEPT !.st = "failed",
                    !.raised = ConstructorError("found unacceptable key", p.key)]
     ELSE IF InMapping(p.key, l.mapping)
     THEN [l EXCEPT !.st = "failed", !.raised = InUseError(p.key)]
     ELSE [l EXCEPT !.mapping = Append(@, p), !.i = @ + 1]

\* the orders in which the constructed mapping may be iterated
IterOrders(l) ==
  IF l.ordered THEN {l.mapping}
  ELSE {[i \in DOMAIN l.mapping |-> l.mapping[p[i]]] : p \in Perms(DOMAIN l.mapping)}

\* the documents: mapping nodes of at most MaxLen pairs
LoadKeys(safe) ==
  {StrV("a"), StrV("b"), IntV(1), TrueV, ListV(<<>>)}
    \cup (IF safe THEN {} ELSE {TupleV(<<IntV(1), IntV(2)>>)})
LoadNodes(safe) ==
  SeqsUpTo({Pair(kk, v) : kk \in LoadKeys(safe), v \in {IntV(1), IntV(2)}}, MaxLen)

InitLoad ==
  /\ pc = "load"
  /\ \E ordered \in BOOLEAN, safe \in BOOLEAN :
       \E node \in LoadNodes(safe) :
         ld = [ordered |-> ordered, safe |-> safe, node |-> node, i |-> 1,
               mapping |-> <<>>, items |-> <<>>, st |-> "run", raised |-> NoErr]
  /\ typ = NoneV /\ typ0 = NoneV /\ data = NoneV /\ data0 = NoneV
  /\ err = NoErr /\ obj = NoneV /\ obj0 = NoneV
  /\ rule = NoRule /\ cerr = NoErr
  /\ mix = NoMix /\ pair = NoPair /\ imp = NoImp
  /\ find = NoFind /\ ct = NoCreate /\ bld = NoBuild

LoadFrame ==
  UNCHANGED <<pc, typ, typ0, data, data0, err, obj, obj0, rule, cerr, mix, pair,
              imp, find, ct, bld>>

\* for key_node, value_node in node.value: ...
LoadPair ==
  /\ pc = "load" /\ ld.st = "run" /\ ld.i <= Len(ld.node)
  /\ ld' = ConstructPair(ld)
  /\ LoadFrame

\* return mapping; the caller iterates it
LoadReturn ==
  /\ pc = "load" /\ ld.st = "run" /\ ld.i > Len(ld.node)
  /\ \E q \in IterOrders(ld) : ld' = [ld EXCEPT !.st = "done", !.items = q]
  /\ LoadFrame

NextLoad == LoadPair \/ LoadReturn
SpecLoad == InitLoad /\ [][NextLoad]_vars

\* the same key appears twice in the document
SameKeyTwice == \E i, j \in DOMAIN ld.node : i < j /\ ld.node[i].key = ld.node[j].key
\* two keys of the document are equal for Python: 1 and true are
EqualKeyTwice ==
  \E i, j \in DOMAIN ld.node : i < j /\ PyEq(ld.node[i].key, ld.node[j].key)
UnhashableKey == \E i \in DOMAIN ld.node : ~Hashable(ld.node[i].key)
LoadEnded == ld.st \in {"done", "failed"}
\* the error is a construction error that names a key appearing twice
NamesTheKey ==
  /\ ld.raised.kind = "ConstructorError"
  /\ ld.raised.msg = "found already in-use key"
  /\ \E i, j \in DOMAIN ld.node : i < j /\ PyEq(ld.node[i].key, ld.node[j].key)
                                    /\ ld.raised.arg = ld.node[j].key
\* the mapping holds the pairs of the document, iterated in document order
\* in ordered mode
ExactPairs ==
  /\ ld.st = "done"
  /\ Range(ld.items) = Range(ld.node) /\ Len(ld.items) = Len(ld.node)
  /\ ld.ordered => ld.items = ld.node

\* C25: with each of the four loaders, a document with the same key twice
\* fails with a construction error naming the key, a document with an
\* unhashable key fails, and any other document gives a mapping holding
\* exactly its pairs, in document order in ordered mode.
C25_Original ==
  LoadEnded =>
    /\ (SameKeyTwice /\ ~UnhashableKey) => (ld.st = "failed" /\ NamesTheKey)
    /\ UnhashableKey => ld.st = "failed"
    /\ (~SameKeyTwice /\ ~UnhashableKey) => ExactPairs

\* no call ends with a TypeError
C25_NoTypeError == ld.st = "failed" => ld.raised.kind = "ConstructorError"

\* the same, with keys compared as Python compares them and without tuples
C25_PythonEqual ==
  (LoadEnded /\ \A i \in DOMAIN ld.node : ld.node[i].key.k # "tuple") =>
    /\ (EqualKeyTwice /\ ~UnhashableKey) => (ld.st = "failed" /\ NamesTheKey)
    /\ UnhashableKey => ld.st = "failed"
    /\ (~EqualKeyTwice /\ ~UnhashableKey) => ExactPairs

(***************************************************************************)
(* YamlConfigBuilder.createType on spec nodes.  A type name is a sequence  *)
(* of tokens ("list", "of", "string", "s", ...): startswith, index and     *)
(* replace work on the tokens.  A spec node is a non-iterable scalar, a    *)
(* string or a list (that holds "type" or not), or a mapping from keys to  *)
(* what they hold.  createType returns the error or the compiled type,     *)
(* with the registry as the call leaves it.                                *)
(***************************************************************************)
ScalarNode == [n |-> "scalar"]
TextNode(n, hasType) == [n |-> n, hasType |-> hasType]
DictNode(f) == [n |-> "dict", f |-> f]

Primitives ==
  {<<"string">>, <<"integer">>, <<"boolean">>, <<"float">>, <<"anything">>}
\* dict(string=str, integer=int, boolean=bool, float=float, anything="anything")
PrimitiveType(t) ==
  CASE t = <<"string">> -> "str"
    [] t = <<"integer">> -> "int"
    [] t = <<"boolean">> -> "bool"
    [] t = <<"float">> -> "float"
    [] OTHER -> "anything"

\* t.startswith(prefix), prefix a sequence of tokens
StartsWith(t, prefix) == Len(t) >= Len(prefix) /\ SubSeq(t, 1, Len(prefix)) = prefix

\* the token tok without its last character
Chop(tok) ==
  CASE tok = "string" -> "strin"
    [] tok = "integer" -> "intege"
    [] tok = "color" -> "colo"
    [] tok = "of" -> "o"
    [] OTHER -> "-"
\* t[:-1]
DropLast(t) ==
  IF t = <<>> THEN <<>>
  ELSE IF t[Len(t)] = "s" THEN SubSeq(t, 1, Len(t) - 1)
  ELSE [t EXCEPT ![Len(t)] = Chop(@)]

\* get_component_type(t): what follows the first "of", with "listsof",
\* "setsof", "mapsof" at its head turned to the singular, else without its
\* last character
GetComponentType(t) ==
  LET i == CHOOSE i \in DOMAIN t : t[i] = "of" /\ \A j \in 1..(i - 1) : t[j] # "of"
      rest == SubSeq(t, i + 1, Len(t))
  IN IF \E p \in {"list", "set", "map"} : StartsWith(rest, <<p, "s", "of">>)
     THEN <<rest[1]>> \o SubSeq(rest, 3, Len(rest))
     ELSE DropLast(rest)

\* eval(expr, dict(), dict(self=self._ns)): "self.a" is the value of a in the
\* data, an error when the data has no a; any other expression is an error
EvalResult(e, val) == [err |-> e, val |-> val]
Eval(expr, ns) ==
  IF expr = "self.a" /\ "a" \in DOMAIN ns THEN EvalResult(NoErr, ns["a"])
  ELSE EvalResult(PyError("Exception", expr), NoneV)

Attributes == <<"required", "default", "forbidden", "maybenull">>
\* spec[k] as setattr receives it: a string for required, forbidden or
\* maybenull is evaluated
Resolve(f, kk, ns) ==
  IF kk \notin DOMAIN f THEN EvalResult(NoErr, NoneV)
  ELSE IF kk # "default" /\ f[kk].k = "str" THEN Eval(f[kk].s, ns)
  ELSE EvalResult(NoErr, f[kk])

\* the outcome of a compilation: the error or the type, the registry after
\* the call, and whether the type is the registry's own object
Compiled(e, val, types) == [err |-> e, val |-> val, types |-> types, shared |-> <<>>]

\* a variant of DeepCopy that hands out the registry's own object
DeepCopy_Alias(types, t) == [Compiled(NoErr, types[t], types) EXCEPT !.shared = t]

\* copy.deepcopy(self.types[t])
DeepCopy(types, t) == Compiled(NoErr, types[t], types)

\* for k in "required default forbidden maybenull".split(): setattr(ret, k, ...)
SetAttributes(r, path, f, ns) ==
  LET rs == [kk \in Range(Attributes) |-> Resolve(f, kk, ns)]
  IN IF \E i \in DOMAIN Attributes : rs[Attributes[i]].err.kind # "ok"
     THEN Compiled(YamlError(path, NoneV, "issue with python expression in yaml",
                             NoneV, <<>>), NoneV, r.types)
     ELSE LET val == [r.val EXCEPT
                        !.required = rs["required"].val,
                        !.default = rs["default"].val,
                        !.forbidden = rs["forbidden"].val,
                        !.maybenull = rs["maybenull"].val]
          IN [r EXCEPT !.val = val,
                       !.types = IF r.shared = <<>> THEN @
                                 ELSE [@ EXCEPT ![r.shared] = val]]

\* getType(kt): self.types[kt], a KeyError when the registry has no kt
GetType(types, kt, path) ==
  IF kt \in DOMAIN types THEN Compiled(NoErr, types[kt], types)
  ELSE Compiled(PyError("KeyError", "Invalid type"), NoneV, types)

\* the class of the collection a type name starts with
CollectionOf(t) ==
  CASE StartsWith(t, <<"list", "of">>) -> "List"
    [] StartsWith(t, <<"map", "of">>) -> "Map"
    [] StartsWith(t, <<"set", "of">>) -> "Set"
    [] OTHER -> ""

RECURSIVE createType(_, _, _, _, _)
\* the branches of createType on the type name t of the mapping f
Build(types, ns, path, name, f) ==
  LET t == f["type"]
      tname == GetComponentType(t)
      inner == createType(types, ns, path \o <<"[]">> \o tname, tname,
                          DictNode([f EXCEPT !["type"] = tname]))
  IN CASE t \in Primitives ->
            Compiled(NoErr,
                     ScalarT(name, PrimitiveType(t),
                             IF "values" \in DOMAIN f THEN f["values"] ELSE <<>>,
                             NoneV, NoneV, NoneV, NoneV), types)
       [] StartsWith(t, <<"list", "of">>) ->
            IF inner.err.kind # "ok" THEN inner
            ELSE Compiled(NoErr, ContainerT("List", name, "list", inner.val, NoneV,
                                            NoneV, NoneV, NoneV, NoneV), types)
       [] StartsWith(t, <<"map", "of">>) ->
            LET nt == IF "names_type" \in DOMAIN f
                      THEN GetType(types, f["names_type"], path)
                      ELSE Compiled(NoErr, NoneV, types)
            IN IF nt.err.kind # "ok" THEN nt
               ELSE IF inner.err.kind # "ok" THEN inner
               ELSE Compiled(NoErr, ContainerT("Map", name, "dict", inner.val, nt.val,
                                               NoneV, NoneV, NoneV, NoneV), types)
       [] StartsWith(t, <<"dict">>) ->
            IF "kids" \notin DOMAIN f
            THEN Compiled(YamlError(path, NoneV, "dict type has no 'kids'", NoneV,
                                    <<>>), NoneV, types)
            ELSE IF f["kids"] = NoneV
            THEN Compiled(YamlError(path, NoneV, "spec[\"kids\"] is None", NoneV,
                                    <<>>), NoneV, types)
            ELSE LET kids == [kk \in DOMAIN f["kids"] |->
                                createType(types, ns, path \o <<kk>>, <<kk>>,
                                           f["kids"][kk])]
                 IN IF \E kk \in DOMAIN kids : kids[kk].err.kind # "ok"
                    THEN kids[CHOOSE kk \in DOMAIN kids : kids[kk].err.kind # "ok"]
                    ELSE Compiled(NoErr,
                                  ContainerT("Dict", name, "dict",
                                             [kk \in DOMAIN kids |-> kids[kk].val],
                                             NoneV, NoneV, NoneV, NoneV, NoneV), types)
       [] StartsWith(t, <<"set", "of">>) ->
            IF inner.err.kind # "ok" THEN inner
            ELSE Compiled(NoErr, ContainerT("Set", name, "list", inner.val, NoneV,
                                            NoneV, NoneV, NoneV, NoneV), types)
       [] t \notin DOMAIN types ->
            Compiled(YamlError(path, NoneV, "unknown type", NoneV, <<>>), NoneV, types)
       [] OTHER -> DeepCopy(types, t)

\* createType(path, name, spec)
createType(types, ns, path, name, spec) ==
  IF spec.n = "scalar"
  THEN Compiled(YamlError(path, NoneV, "Item should be iterable", NoneV, <<>>),
                NoneV, types)
  ELSE IF spec.n \in {"str", "list"}
  THEN IF spec.hasType
       THEN Compiled(PyError("TypeError", "indices must be integers"), NoneV, types)
       ELSE Compiled(YamlError(path, NoneV, "type spec must contain a 'type' key.",
                               NoneV, <<>>), NoneV, types)
  ELSE IF "type" \notin DOMAIN spec.f
  THEN Compiled(YamlError(path, NoneV, "type spec must contain a 'type' key.",
                          NoneV, <<>>), NoneV, types)
  ELSE LET r == Build(types, ns, path, name, spec.f)
       IN IF r.err.kind # "ok" THEN r ELSE SetAttributes(r, path, spec.f, ns)

\* the type names of the model: components, and chains of collection
\* prefixes over them, well formed or not
Components ==
  {<<"string">>, <<"integer">>, <<"color">>, <<"shade">>, <<"dict">>,
   <<"dict", "ionary">>}
CollectionWords == {"list", "set", "map"}
\* p2 "sof" ... pk "sof" c "s"
RECURSIVE Plural(_, _)
Plural(ps, c) ==
  IF ps = <<>> THEN c \o <<"s">> ELSE <<Head(ps), "s", "of">> \o Plural(Tail(ps), c)
\* p1 "of" p2 "sof" ... pk "sof" c "s"
ChainName(ps, c) == <<Head(ps), "of">> \o Plural(Tail(ps), c)
Chains == SeqsUpTo(CollectionWords, MaxLen - 1) \ {<<>>}
Malformed ==
  {<<"list", "of">>, <<"list", "of", "string">>,
   <<"set", "of", "list", "of", "string", "s">>}
NodeTypeNames ==
  Components \cup {ChainName(ps, c) : ps \in Chains, c \in Components} \cup Malformed

\* the spec nodes of the model
AbsentV == [k |-> "absent"]
KidNodes ==
  {NoneV, [kk \in {"kid"} |-> DictNode([x \in {"type"} |-> <<"string">>])],
   [kk \in {"kid"} |-> ScalarNode]}
NodeOptions(t) ==
  [type : {t},
   values : {<<>>, <<StrV("x")>>},
   kids : IF \E i \in DOMAIN t : t[i] = "dict" THEN {AbsentV} \cup KidNodes
          ELSE {AbsentV},
   names_type : IF \E i \in DOMAIN t : t[i] = "map"
                THEN {<<>>, <<"color">>, <<"shade">>} ELSE {<<>>},
   required : {AbsentV, TrueV, StrV("self.a"), StrV("bad")},
   default : {AbsentV, StrV("x")},
   maybenull : {AbsentV, FalseV}]
\* the mapping a choice of options stands for: the keys it gives
NodeOf(o) ==
  DictNode([kk \in {x \in {"type", "values", "kids", "names_type", "required",
                           "default", "maybenull"} :
                      CASE x \in {"values", "names_type"} -> o[x] # <<>>
                        [] x \in {"kids", "required", "default", "maybenull"} ->
                             o[x] # AbsentV
                        [] OTHER -> TRUE} |-> o[kk]])
SpecNodes ==
  {ScalarNode, DictNode([x \in {"values"} |-> <<StrV("x")>>])}
    \cup {TextNode(n, h) : n \in {"str", "list"}, h \in BOOLEAN}
    \cup UNION {{NodeOf(o) : o \in NodeOptions(t)} : t \in NodeTypeNames}

\* self.types: empty, or holding the named types color and dictionary, each
\* with the attributes of its own definition
NamedTypes ==
  {EmptyMap,
   [t \in {<<"color">>, <<"dict", "ionary">>} |->
      IF t = <<"color">>
      THEN ScalarT(<<"color">>, "str", <<StrV("y")>>, TrueV, NoneV, NoneV, TrueV)
      ELSE ContainerT("List", <<"dict", "ionary">>, "list",
                      ScalarT(<<"string">>, "str", <<>>, NoneV, StrV("z"), NoneV, NoneV),
                      NoneV, NoneV, StrV("z"), NoneV, NoneV)]}
\* self._ns: the data, with or without a top-level value a
Namespaces == {EmptyMap, [x \in {"a"} |-> TrueV]}

InitCreate ==
  /\ pc = "create"
  /\ \E types \in NamedTypes, ns \in Namespaces, spec \in SpecNodes :
       ct = [types |-> types, ns |-> ns, spec |-> spec, st |-> "ready",
             r |-> Compiled(NoErr, NoneV, types)]
  /\ typ = NoneV /\ typ0 = NoneV /\ data = NoneV /\ data0 = NoneV
  /\ err = NoErr /\ obj = NoneV /\ obj0 = NoneV
  /\ rule = NoRule /\ cerr = NoErr
  /\ mix = NoMix /\ pair = NoPair /\ imp = NoImp
  /\ find = NoFind /\ bld = NoBuild /\ ld = NoLoad

\* t = self.createType(tname, tname, spec)
CreateCall ==
  /\ pc = "create" /\ ct.st = "ready"
  /\ ct' = [ct EXCEPT !.st = "done",
                      !.r = createType(ct.types, ct.ns, <<"root">>, <<"root">>, ct.spec)]
  /\ UNCHANGED <<pc, typ, typ0, data, data0, err, obj, obj0, rule, cerr, mix, pair,
                 imp, find, bld, ld>>

NextCreate == CreateCall
SpecCreate == InitCreate /\ [][NextCreate]_vars

\* the node is a mapping with a type key
Typed == ct.spec.n = "dict" /\ "type" \in DOMAIN ct.spec.f
\* the component a type name comes down to once its collection prefixes are
\* taken off
RECURSIVE Innermost(_)
Innermost(t) == IF CollectionOf(t) = "" THEN t ELSE Innermost(GetComponentType(t))
\* one of the collections of the type name is a map
RECURSIVE HasMapLevel(_)
HasMapLevel(t) ==
  /\ CollectionOf(t) # ""
  /\ (CollectionOf(t) = "Map" \/ HasMapLevel(GetComponentType(t)))

NotIterableCase == ct.spec.n = "scalar"
NoTypeCase ==
  \/ ct.spec.n \in {"str", "list"} /\ ~ct.spec.hasType
  \/ ct.spec.n = "dict" /\ "type" \notin DOMAIN ct.spec.f
UnknownTypeCase ==
  /\ Typed
  /\ LET c == Innermost(ct.spec.f["type"])
     IN c \notin Primitives /\ ~StartsWith(c, <<"dict">>) /\ c \notin DOMAIN ct.types
NamesTypeCase ==
  /\ Typed
  /\ HasMapLevel(ct.spec.f["type"])
  /\ "names_type" \in DOMAIN ct.spec.f
  /\ ct.spec.f["names_type"] \notin DOMAIN ct.types
NoKidsCase ==
  /\ Typed
  /\ StartsWith(Innermost(ct.spec.f["type"]), <<"dict">>)
  /\ ("kids" \notin DOMAIN ct.spec.f \/ ct.spec.f["kids"] = NoneV)

\* C21: createType fails with a YamlError, and with no other kind of error,
\* when the node is not iterable, has no type key, names a type that is no
\* primitive, collection, dict or registered name, gives a names_type the
\* registry does not hold, or is a dict type without kids or with null kids.
C21_Original ==
  (ct.st = "done"
     /\ (NotIterableCase \/ NoTypeCase \/ UnknownTypeCase \/ NamesTypeCase \/ NoKidsCase))
    => ct.r.err.kind = "YamlError"

\* the same, but for a names_type the registry does not hold
C21_ButNamesType ==
  (ct.st = "done" /\ ~NamesTypeCase
     /\ (NotIterableCase \/ NoTypeCase \/ UnknownTypeCase \/ NoKidsCase))
    => ct.r.err.kind = "YamlError"

\* a names_type the registry does not hold is a KeyError
C21_NamesTypeKeyError ==
  (ct.st = "done" /\ NamesTypeCase) => ct.r.err.kind = "KeyError"

\* the class compiled for a collection word
ClassOfWord(p) == CASE p = "list" -> "List" [] p = "set" -> "Set" [] OTHER -> "Map"
\* the type k levels below the compiled type val
RECURSIVE InnerAt(_, _)
InnerAt(val, n) == IF n = 0 THEN val ELSE InnerAt(val.spec, n - 1)
\* the attribute kk as the node of the call gives it
Given(kk) == Resolve(ct.spec.f, kk, ct.ns).val
\* the type of the component c: the primitive type with the values of the
\* node, or the registered type, carrying the attributes the node gives
TypeOfComponent(c) ==
  LET base == IF c \in Primitives
              THEN ScalarT(c, PrimitiveType(c),
                           IF "values" \in DOMAIN ct.spec.f THEN ct.spec.f["values"]
                           ELSE <<>>, NoneV, NoneV, NoneV, NoneV)
              ELSE ct.types[c]
  IN [base EXCEPT !.required = Given("required"), !.default = Given("default"),
                  !.forbidden = Given("forbidden"), !.maybenull = Given("maybenull")]
\* nothing else than the type name can make the compilation fail
Compilable ==
  /\ \A i \in DOMAIN Attributes : Resolve(ct.spec.f, Attributes[i], ct.ns).err.kind = "ok"
  /\ "names_type" \in DOMAIN ct.spec.f => ct.spec.f["names_type"] \in DOMAIN ct.types
\* the name ps[1] "of" ps[2] "sof" ... c "s" compiles to the nesting of the
\* classes of ps around the type of c
Decomposed(ps, c) ==
  /\ ct.r.err.kind = "ok"
  /\ \A i \in DOMAIN ps : InnerAt(ct.r.val, i - 1).c = ClassOfWord(ps[i])
  /\ InnerAt(ct.r.val, Len(ps)) = TypeOfComponent(c)

\* C22: for every chain of collection prefixes and every component that is
\* a primitive or a registered named type, the collection name compiles to
\* the nesting of List, Set and Map the chain spells, around the type of the
\* component.
C22_Original ==
  (ct.st = "done" /\ Typed /\ Compilable) =>
    \A ps \in Chains, c \in Primitives \cup DOMAIN ct.types :
      ct.spec.f["type"] = ChainName(ps, c) => Decomposed(ps, c)

\* the same, for the components whose name does not start like a dict or a
\* collection type
C22_PlainNames ==
  (ct.st = "done" /\ Typed /\ Compilable) =>
    \A ps \in Chains, c \in Primitives \cup DOMAIN ct.types :
      (ct.spec.f["type"] = ChainName(ps, c)
         /\ ~StartsWith(c, <<"dict">>) /\ CollectionOf(c) = "") => Decomposed(ps, c)

\* the number of collections around the component of the type name t
RECURSIVE Depth(_)
Depth(t) == IF CollectionOf(t) = "" THEN 0 ELSE 1 + Depth(GetComponentType(t))
\* the compiled type val carries the four attributes as the mapping f gives
\* them, null for those it does not give
CarriesAttributes(val, f) ==
  \A i \in DOMAIN Attributes :
    LET kk == Attributes[i]
        given == Resolve(f, kk, ct.ns).val
    IN CASE kk = "required" -> val.required = given
         [] kk = "default" -> val.default = given
         [] kk = "forbidden" -> val.forbidden = given
         [] OTHER -> val.maybenull = given
\* the type name of the node is looked up in the registry
ReferenceCase ==
  /\ Typed
  /\ ct.spec.f["type"] \in DOMAIN ct.types
  /\ ct.spec.f["type"] \notin Primitives
  /\ CollectionOf(ct.spec.f["type"]) = ""
  /\ ~StartsWith(ct.spec.f["type"], <<"dict">>)

\* C29: every type createType returns carries required, default, forbidden
\* and maybenull with the values its own node gives (null when it gives
\* none); a reference to a registered named type returns the registry entry
\* with its attributes replaced by those of the referencing node, and the
\* registry is left as it was.
C29_Attributes ==
  (ct.st = "done" /\ ct.r.err.kind = "ok") =>
    /\ \A n \in 0..Depth(ct.spec.f["type"]) :
         CarriesAttributes(InnerAt(ct.r.val, n), ct.spec.f)
    /\ ct.r.val.c = "Dict" =>
         \A kk \in DOMAIN ct.r.val.spec :
           CarriesAttributes(ct.r.val.spec[kk], ct.spec.f["kids"][kk].f)
    /\ ReferenceCase =>
         /\ ct.r.val.name = ct.types[ct.spec.f["type"]].name
         /\ ct.r.val.type = ct.types[ct.spec.f["type"]].type
         /\ ct.r.val.values = ct.types[ct.spec.f["type"]].values
         /\ ct.r.val.spec = ct.types[ct.spec.f["type"]].spec
    /\ ct.r.types = ct.types

\* a reference to the named type color, which its definition makes required
\* and nullable, from a node that only says maybenull: false
C29_Witness ==
  /\ ct.st = "done" /\ ct.r.err.kind = "ok"
  /\ ReferenceCase
  /\ ct.spec.f["type"] = <<"color">>
  /\ ct.types[<<"color">>].required = TrueV
  /\ "required" \notin DOMAIN ct.spec.f
  /\ "maybenull" \in DOMAIN ct.spec.f
  /\ ct.spec.f["maybenull"] = FalseV
  /\ ct.r.val.required = NoneV
  /\ ct.r.val.maybenull = FalseV
  /\ ct.r.types[<<"color">>].maybenull = TrueV

(***************************************************************************)
(* YamlConfigBuilder.__init__: one builder run.  bld.dict is self._dict,   *)
(* bld.ns is self._ns, bld.types is self.types.  A type file is named by   *)
(* the directory and the entry it is looked up with; the directory         *)
(* "types" stands for <directory of the spec file>/types.  bld.evals is    *)
(* the list of the predicate evaluations done so far, bld.imported the     *)
(* list of the files handed to importTypes, bld.trace the list of the      *)
(* phases gone through.                                                    *)
(***************************************************************************)
TypeFile(dir, entry) == <<dir, entry>>

\* the declaration a type file holds: the entry "e" declares the type color,
\* any other entry the type shade; the values allowed depend on the
\* directory the file is in
DeclaredName(file) == IF file[2] = "e" THEN <<"color">> ELSE <<"shade">>
DeclaredSpec(file) ==
  DictNode([x \in {"type", "values"} |->
              IF x = "type" THEN <<"string">>
              ELSE IF file[1] = "c" THEN <<StrV("y")>>
              ELSE IF file[1] = "d" THEN <<StrV("z")>>
              ELSE <<StrV("y"), StrV("z")>>])

\* importTypes(fn) on a file of one declaration: the declaration is compiled
\* and registered; a failure is raised when the loop ends
ImportTypes(types, ns, file) ==
  LET name == DeclaredName(file)
      r == createType(types, ns, <<file[2], ":">> \o name, name, DeclaredSpec(file))
  IN IF r.err.kind = "ok" THEN Compiled(NoErr, NoneV, SetKey(r.types, name, r.val))
     ELSE Compiled(r.err, NoneV, types)

\* additionalfn of one turn of the loop over yamltypes_dirs: the file of the
\* directory if it exists, else the file under <spec directory>/types
AdditionalFn(dir, entry, exists) ==
  IF TypeFile(dir, entry) \in exists THEN TypeFile(dir, entry)
  ELSE TypeFile("types", entry)

\* one predicate evaluation: the attribute attr of the node at the keys at
Evaluation(at, attr) == [at |-> at, attr |-> attr]

\* the predicates the attribute loop of one createType call evaluates for
\* the mapping f, from the attribute number i on: it stops at the first
\* evaluation that fails
RECURSIVE OwnEvaluations(_, _, _, _)
OwnEvaluations(f, ns, at, i) ==
  IF i > Len(Attributes) THEN <<>>
  ELSE LET kk == Attributes[i]
       IN IF kk \in DOMAIN f /\ kk # "default" /\ f[kk].k = "str"
          THEN <<Evaluation(at, kk)>> \o
               (IF Eval(f[kk].s, ns).err.kind = "ok"
                THEN OwnEvaluations(f, ns, at, i + 1) ELSE <<>>)
          ELSE OwnEvaluations(f, ns, at, i + 1)

\* the last predicate of the list evals has been evaluated with no error
Passed(f, ns, evals) ==
  evals = <<>> \/ Eval(f[evals[Len(evals)].attr].s, ns).err.kind = "ok"

\* what createType(path, name, spec) evaluates: whether the call returns a
\* type, and the predicate evaluations it does, in the order they are done;
\* at is the list of the keys that lead to the node, ord the iteration order
\* of the kids
Evaluations(ok, evals) == [ok |-> ok, evals |-> evals]
RECURSIVE Evaluated(_, _, _, _, _)
RECURSIVE KidsEvaluated(_, _, _, _, _, _)
KidsEvaluated(types, ns, at, kids, ord, i) ==
  IF i > Len(ItemsOrder(DOMAIN kids, ord)) THEN Evaluations(TRUE, <<>>)
  ELSE LET kk == ItemsOrder(DOMAIN kids, ord)[i]
           first == Evaluated(types, ns, at \o <<kk>>, kids[kk], ord)
           rest == KidsEvaluated(types, ns, at, kids, ord, i + 1)
       IN IF first.ok THEN Evaluations(rest.ok, first.evals \o rest.evals)
          ELSE first

\* the branches of createType on the type name of the mapping f
BuildEvaluated(types, ns, at, f, ord) ==
  CASE f["type"] \in Primitives -> Evaluations(TRUE, <<>>)
    [] CollectionOf(f["type"]) # "" ->
         IF /\ CollectionOf(f["type"]) = "Map"
            /\ "names_type" \in DOMAIN f
            /\ f["names_type"] \notin DOMAIN types
         THEN Evaluations(FALSE, <<>>)
         ELSE Evaluated(types, ns, at,
                        DictNode([f EXCEPT !["type"] = GetComponentType(f["type"])]),
                        ord)
    [] StartsWith(f["type"], <<"dict">>) ->
         IF "kids" \notin DOMAIN f THEN Evaluations(FALSE, <<>>)
         ELSE IF f["kids"] = NoneV THEN Evaluations(FALSE, <<>>)
         ELSE KidsEvaluated(types, ns, at, f["kids"], ord, 1)
    [] OTHER -> Evaluations(f["type"] \in DOMAIN types, <<>>)

Evaluated(types, ns, at, spec, ord) ==
  IF spec.n # "dict" THEN Evaluations(FALSE, <<>>)
  ELSE IF "type" \notin DOMAIN spec.f THEN Evaluations(FALSE, <<>>)
  ELSE LET r == BuildEvaluated(types, ns, at, spec.f, ord)
           own == OwnEvaluations(spec.f, ns, at, 1)
       IN IF r.ok THEN Evaluations(Passed(spec.f, ns, own), r.evals \o own)
          ELSE r

\* the state of a builder run
Builder(st, dict, rules, spec, needSpec, dirs, imports, exists, root) ==
  [st |-> st, dict |-> dict, loaded |-> dict, customized |-> NoneV,
   rules |-> rules, spec |-> spec, needSpec |-> needSpec, dirs |-> dirs,
   imports |-> imports, exists |-> exists, root |-> root,
   ns |-> EmptyMap, types |-> EmptyMap, i |-> 1, j |-> 1, t |-> NoneV,
   imported |-> <<>>, evals |-> <<>>, trace |-> <<>>, raised |-> NoErr]

\* the customization rules of the runs
RSetA == MixRule(<<"a">>, TrueV)
BuildRules == {<<>>, <<RSetA>>, <<RDelIfA>>, <<RDelIfA, RSetA>>}
\* the loaded documents: a is absent, true or false, b is absent, a string
\* or a list of strings
BuildTrees ==
  {DictV(f) : f \in {g \in MapsOver({"a", "b"},
                                    {TrueV, FalseV, StrV("y"), ListV(<<StrV("y")>>)}) :
                       /\ "a" \in DOMAIN g => g["a"].k = "bool"
                       /\ "b" \in DOMAIN g => g["b"].k # "bool"}}
\* the root nodes: a dict of a boolean a and of b, a string, a color or lists
\* of strings, with or without predicates; with defaults, a has the default
\* true and there is a string c of default "y"
BuildChains == SeqsUpTo({"list"}, MaxLen - 1) \ {<<>>}
BuildTypeNames ==
  {<<"string">>, <<"color">>} \cup {ChainName(ps, <<"string">>) : ps \in BuildChains}
KidA(withDefault) ==
  DictNode([x \in (IF withDefault THEN {"type", "default"} ELSE {"type"}) |->
              IF x = "type" THEN <<"boolean">> ELSE TrueV])
KidB(t, attr) ==
  DictNode([x \in {"type"} \cup attr |->
              IF x = "type" THEN t ELSE StrV("self.a")])
KidC ==
  DictNode([x \in {"type", "default"} |->
              IF x = "type" THEN <<"string">> ELSE StrV("y")])
RootNode(withDefault, t, attr) ==
  DictNode([x \in {"type", "kids"} |->
              IF x = "type" THEN <<"dict">>
              ELSE [kk \in (IF withDefault THEN {"a", "b", "c"} ELSE {"a", "b"}) |->
                      IF kk = "a" THEN KidA(withDefault)
                      ELSE IF kk = "b" THEN KidB(t, attr) ELSE KidC]])
BuildRoots ==
  {RootNode(wd, t, attr) : wd \in BOOLEAN, t \in BuildTypeNames,
                           attr \in {{}, {"required"}, {"forbidden"},
                                     {"required", "maybenull"}}}
\* the search directories, the imports of the spec file, the type files
\* that exist
BuildDirs == SeqsUpTo({"c", "d"}, MaxLen - 1)
BuildImports == {<<>>, <<"e">>, <<"e", "f">>}
BuildFiles ==
  {fs \in SUBSET {TypeFile("c", "e"), TypeFile("d", "e"), TypeFile("types", "e"),
                  TypeFile("types", "f")} : Cardinality(fs) <= 2}

\* self._dict = self._yamlLoad(fn) has been done.  The runs are those of one
\* document and two root nodes with every layout of the type files, those of
\* every document, rule list and root node with one search directory, and
\* those of a document that has no spec file
InitBuild ==
  /\ pc = "build"
  /\ \/ \E dirs \in BuildDirs, imports \in BuildImports, exists \in BuildFiles,
           t \in {<<"string">>, <<"color">>} :
          bld = Builder("loaded", DictV([x \in {"a", "b"} |->
                                           IF x = "a" THEN TrueV ELSE StrV("y")]),
                        <<>>, TRUE, TRUE, dirs, imports, exists,
                        RootNode(FALSE, t, {}))
     \/ \E dict \in BuildTrees, rules \in BuildRules, root \in BuildRoots,
           imports \in {<<>>, <<"e">>} :
          bld = Builder("loaded", dict, rules, TRUE, TRUE, <<"c">>, imports,
                        {TypeFile("c", "e")}, root)
     \/ \E dict \in BuildTrees, needSpec \in BOOLEAN :
          bld = Builder("loaded", dict, <<RSetA>>, FALSE, needSpec, <<>>, <<>>, {},
                        RootNode(FALSE, <<"string">>, {}))
  /\ typ = NoneV /\ typ0 = NoneV /\ data = NoneV /\ data0 = NoneV
  /\ err = NoErr /\ obj = NoneV /\ obj0 = NoneV
  /\ rule = NoRule /\ cerr = NoErr
  /\ mix = NoMix /\ pair = NoPair /\ imp = NoImp
  /\ find = NoFind /\ ct = NoCreate /\ ld = NoLoad

BuildFrame ==
  UNCHANGED <<pc, typ, typ0, data, data0, err, obj, obj0, rule, cerr, mix, pair,
              imp, find, ct, ld>>

\* self.mixCustomizations(os.path.basename(fn), customizations);
\* self._ns = Namespace(self._dict); self.types = {}
BuildCustomize ==
  /\ pc = "build" /\ bld.st = "loaded"
  /\ LET r == ApplyAll(bld.dict, bld.rules)
     IN bld' = IF r.err.kind # "ok"
               THEN [bld EXCEPT !.st = "failed", !.dict = r.obj, !.raised = r.err,
                                !.trace = Append(@, "customize")]
               ELSE [bld EXCEPT !.st = "customized", !.dict = r.obj,
                                !.customized = r.obj, !.ns = r.obj.d,
                                !.types = EmptyMap,
                                !.trace = Append(@, "customize")]
  /\ BuildFrame

\* if specfn is not None: spec = self._yamlLoad(specfn); else: if needSpec:
\* raise ValueError
BuildSpec ==
  /\ pc = "build" /\ bld.st = "customized"
  /\ bld' = IF bld.spec THEN [bld EXCEPT !.st = "imports", !.i = 1, !.j = 1]
            ELSE IF bld.needSpec
            THEN [bld EXCEPT !.st = "failed",
                             !.raised = PyError("ValueError", "no spec found for")]
            ELSE [bld EXCEPT !.st = "done"]
  /\ BuildFrame

\* one turn of the loop over yamltypes_dirs for the entry imports[i]
BuildImport ==
  /\ pc = "build" /\ bld.st = "imports"
  /\ bld.i <= Len(bld.imports) /\ bld.j <= Len(bld.dirs)
  /\ LET additionalfn == AdditionalFn(bld.dirs[bld.j], bld.imports[bld.i], bld.exists)
         r == ImportTypes(bld.types, bld.ns, additionalfn)
     IN bld' = IF additionalfn \notin bld.exists
               THEN [bld EXCEPT !.st = "failed",
                                !.raised = PyError("Exception", "Unable to find imports")]
               ELSE IF r.err.kind # "ok"
               THEN [bld EXCEPT !.st = "failed", !.raised = r.err,
                                !.imported = Append(@, additionalfn),
                                !.trace = Append(@, "import")]
               ELSE [bld EXCEPT !.types = r.types, !.j = @ + 1,
                                !.imported = Append(@, additionalfn),
                                !.trace = Append(@, "import")]
  /\ BuildFrame

\* the loop over yamltypes_dirs is over: on to the next entry of the imports
BuildNextImport ==
  /\ pc = "build" /\ bld.st = "imports"
  /\ bld.i <= Len(bld.imports) /\ bld.j > Len(bld.dirs)
  /\ bld' = [bld EXCEPT !.i = @ + 1, !.j = 1]
  /\ BuildFrame

\* t = self.createType(tname, tname, spec["root"])
BuildCompile ==
  /\ pc = "build" /\ bld.st = "imports"
  /\ bld.i > Len(bld.imports)
  /\ \E ord \in Perms(Keys) :
       LET r == createType(bld.types, bld.ns, <<"root">>, <<"root">>, bld.root)
           evals == Evaluated(bld.types, bld.ns, <<>>, bld.root, ord).evals
       IN bld' = IF r.err.kind # "ok"
                 THEN [bld EXCEPT !.st = "failed", !.raised = r.err,
                                  !.evals = @ \o evals,
                                  !.trace = Append(@, "compile")]
                 ELSE [bld EXCEPT !.st = "compiled", !.t = r.val, !.types = r.types,
                                  !.evals = @ \o evals,
                                  !.trace = Append(@, "compile")]
  /\ BuildFrame

\* t.match(tname, self._dict); self._ns = Namespace(self._dict)
BuildMatch ==
  /\ pc = "build" /\ bld.st = "compiled"
  /\ \E ord \in Orders :
       LET r == Match(bld.t, RootPath, bld.dict, ord)
       IN bld' = IF r.err.kind # "ok"
                 THEN [bld EXCEPT !.st = "failed", !.raised = r.err, !.dict = r.val,
                                  !.t = r.typ, !.trace = Append(@, "match")]
                 ELSE [bld EXCEPT !.st = "done", !.dict = r.val, !.t = r.typ,
                                  !.ns = r.val.d, !.trace = Append(@, "match")]
  /\ BuildFrame

NextBuild ==
  \/ BuildCustomize \/ BuildSpec \/ BuildImport \/ BuildNextImport
  \/ BuildCompile \/ BuildMatch

SpecBuild == InitBuild /\ [][NextBuild]_vars

(***************************************************************************)
(* The imports of the spec file.                                           *)
(***************************************************************************)
\* the place of the type file of an entry: the first search directory that
\* holds it, else <spec directory>/types
Located(entry) ==
  IF \E j \in DOMAIN bld.dirs : TypeFile(bld.dirs[j], entry) \in bld.exists
  THEN LET j == CHOOSE j \in DOMAIN bld.dirs :
                  /\ TypeFile(bld.dirs[j], entry) \in bld.exists
                  /\ \A h \in 1..(j - 1) : TypeFile(bld.dirs[h], entry) \notin bld.exists
       IN TypeFile(bld.dirs[j], entry)
  ELSE TypeFile("types", entry)
\* the entry exists in one of the places
Findable(entry) == Located(entry) \in bld.exists
\* the loop over the imports is over and the root node is about to be compiled
ImportsDone ==
  pc = "build" /\ bld.st = "imports" /\ bld.i > Len(bld.imports)
\* the run has failed on an import that it did not find
ImportNotFound ==
  pc = "build" /\ bld.st = "failed" /\ bld.raised.msg = "Unable to find imports"
\* the files handed to importTypes are those of the entries, one for each
ImportedAsLocated ==
  /\ Len(bld.imported) = Len(bld.imports)
  /\ \A i \in DOMAIN bld.imports :
       /\ bld.imported[i] = Located(bld.imports[i])
       /\ DeclaredName(bld.imported[i]) \in DOMAIN bld.types

\* C24: for every entry of the imports of the spec file the type file is
\* located as <dir>/<entry> in the search directories, tried first and in
\* order, and otherwise as <spec directory>/types/<entry>; its types are in
\* the registry before the root node is compiled, and the run fails on an
\* import only when the entry exists in none of these places
C24_Original ==
  /\ (ImportsDone /\ \A i \in DOMAIN bld.imports : Findable(bld.imports[i]))
       => ImportedAsLocated
  /\ ImportNotFound => \E i \in DOMAIN bld.imports : ~Findable(bld.imports[i])

\* with exactly one search directory the imports are located as C24 says
C24_OneDirectory ==
  (pc = "build" /\ Len(bld.dirs) = 1) => C24_Original

(***************************************************************************)
(* The phases of a builder run.                                            *)
(***************************************************************************)
\* the number of the elements of the sequence s that are x
Count(s, x) == Cardinality({i \in DOMAIN s : s[i] = x})
\* the node of the key b of the root node, and its conditional predicates
NodeB == bld.root.f["kids"]["b"]
Predicates == {kk \in DOMAIN NodeB.f \cap {"required", "forbidden", "maybenull"} :
                 NodeB.f[kk].k = "str"}
\* the root node has been compiled
RootCompiled == pc = "build" /\ bld.t # NoneV
\* the run has returned its tree
Returned == pc = "build" /\ bld.st = "done" /\ bld.spec
\* the phases of the trace are in the order customize, import, compile, match
PhaseRank(ph) ==
  CASE ph = "customize" -> 1 [] ph = "import" -> 2 [] ph = "compile" -> 3
    [] OTHER -> 4
PhaseOrder ==
  /\ \A i, j \in DOMAIN bld.trace :
       i < j => PhaseRank(bld.trace[i]) <= PhaseRank(bld.trace[j])
  /\ \A ph \in {"customize", "compile", "match"} : Count(bld.trace, ph) <= 1
\* the tree the later phases work on is the loaded tree with all the rules
\* applied
AllRulesApplied ==
  bld.customized # NoneV => bld.customized = ApplyAll(bld.loaded, bld.rules).obj
\* the value the compiled type of b carries for the predicate kk is what the
\* predicate gives on the customized tree
OnCustomizedTree(kk) ==
  LET given == Eval(NodeB.f[kk].s, bld.customized.d)
      tb == bld.t.spec["b"]
  IN /\ given.err.kind = "ok"
     /\ CASE kk = "required" -> tb.required = given.val
          [] kk = "forbidden" -> tb.forbidden = given.val
          [] OTHER -> tb.maybenull = given.val
\* no predicate is evaluated before the root node is compiled
AtCompileTime == "compile" \notin Range(bld.trace) => bld.evals = <<>>
\* a predicate that reads a key the customized tree has not makes the
\* compilation fail, whatever defaults the root node declares
NeverADefault ==
  (/\ "compile" \in Range(bld.trace)
   /\ Predicates # {}
   /\ "a" \notin DOMAIN bld.customized.d
   /\ NodeB.f["type"] # <<"color">>)
    => (bld.st = "failed" /\ bld.raised.msg = "issue with python expression in yaml")
\* the declared default of the key kk of the root node
DefaultOf(kk) ==
  IF "default" \in DOMAIN bld.root.f["kids"][kk].f
  THEN bld.root.f["kids"][kk].f["default"] ELSE NoneV
\* the returned tree is the customized tree with the declared defaults of the
\* keys it has not
PlusDefaults ==
  /\ \A kk \in DOMAIN bld.customized.d :
       kk \in DOMAIN bld.dict.d /\ bld.dict.d[kk] = bld.customized.d[kk]
  /\ \A kk \in DOMAIN bld.dict.d \ DOMAIN bld.customized.d :
       kk \in DOMAIN bld.root.f["kids"] /\ bld.dict.d[kk] = DefaultOf(kk)
  /\ \A kk \in DOMAIN bld.root.f["kids"] :
       DefaultOf(kk) # NoneV => kk \in DOMAIN bld.dict.d
  /\ bld.ns = bld.dict.d
\* what C26 says but for the number of the evaluations
Phases ==
  /\ PhaseOrder
  /\ AllRulesApplied
  /\ AtCompileTime
  /\ NeverADefault
  /\ RootCompiled => \A kk \in Predicates : OnCustomizedTree(kk)
  /\ Returned => PlusDefaults

\* C26: in one builder run all the customization rules are applied to the
\* loaded tree, then the types are imported and the root node compiled, then
\* the tree is validated; every conditional predicate is evaluated exactly
\* once, at compile time, against the customized tree as it is before any
\* default is injected, and the returned tree is the customized tree plus
\* the injected defaults
C26_Original ==
  pc = "build" =>
    /\ Phases
    /\ RootCompiled =>
         \A kk \in Predicates : Count(bld.evals, Evaluation(<<"b">>, kk)) = 1

\* the phases are as C26 says, and a predicate is evaluated once for each
\* level of the type of its node: once for a string, one time more for each
\* "listof" in front of it
C26_OncePerLevel ==
  pc = "build" =>
    /\ Phases
    /\ RootCompiled =>
         \A kk \in Predicates :
           Count(bld.evals, Evaluation(<<"b">>, kk)) = Depth(NodeB.f["type"]) + 1

(***************************************************************************)
(* The whole model.                                                        *)
(***************************************************************************)
Init ==
  \/ InitValidate \/ InitCustomize \/ InitMix \/ InitPair \/ InitImport
  \/ InitFind \/ InitLoad \/ InitCreate \/ InitBuild
Next ==
  \/ NextValidate \/ NextCustomize \/ NextMix \/ NextPair \/ NextImport
  \/ NextFind \/ NextLoad \/ NextCreate \/ NextBuild
Spec == Init /\ [][Next]_vars

====
